---------------------------- MODULE Spec2Model ----------------------------
(***************************************************************************)
(* Model of the normalisation and enrichment pipeline of                   *)
(* src/scraper/scrape_events.py (class EventScraper and main):             *)
(*   scrape_all -> _add_event (deduplication at ingestion)                 *)
(*   enrich_events -> geocode_address (cache, rate limit, fallbacks,       *)
(*                    feature tags, backfilled fields)                     *)
(*   filter_past_events (7-day cutoff, fail open)                          *)
(*   save_to_json                                                          *)
(* Python dicts are functions whose DOMAIN is the set of keys present, so  *)
(* d.get(k, default) and "k in d" are modelled literally.  Python strings  *)
(* are TLA+ strings.                                                       *)
(***************************************************************************)
EXTENDS Integers, Sequences, FiniteSets, TLC

VARIABLES
    events,         \* self.events: list of event dicts
    seen_events,    \* self.seen_events: set of dedup identifiers
    geocode_cache,  \* self.geocode_cache: dict cache_key -> location_data
    pc,             \* position of main(): scrape, enrich, filter, save, done, failed
    ei,             \* enrich_events: index of the next event of the for loop
    clock,          \* tenths of a time unit slept so far (time.sleep only)
    offered,        \* history: every record handed to _add_event, in order
    admitLog,       \* history: identifiers admitted by _add_event, in order
    extCalls,       \* history: one entry per requests.get of geocode_address
    geoLog,         \* history: one entry per geocode_address call
    lastResp,       \* history: what the service answered in the loop
                    \* iteration just run (NoResp: not asked, or not in the loop)
    filterNow,      \* history: the datetime.now() the filter read (0: not yet)
    catalog,        \* what save_to_json wrote ("events" of the output), or <<>>
    hashseed,       \* the per-process seed of the built-in str hash
    si,             \* scrape_all: position of "for source in self.sources"
    scraped         \* history: what became of each source scrape_all visited

vars == <<events, seen_events, geocode_cache, pc, ei, clock,
          offered, admitLog, extCalls, geoLog, lastResp, filterNow, catalog,
          hashseed, si, scraped>>

----------------------------------------------------------------------------
(* Bounds of the model.                                                    *)

\* number of _add_event calls of one run
MaxOffers == 2

----------------------------------------------------------------------------
(* Python dict and str primitives.                                         *)

\* d.get(k, default)
Get(d, k, default) == IF k \in DOMAIN d THEN d[k] ELSE default

\* d[k] = v
Put(d, k, v) == [f \in DOMAIN d \cup {k} |-> IF f = k THEN v ELSE d[f]]

\* s[i] as a one-character string (1-based)
Char(s, i) == SubSeq(s, i, i)

UpperLetters == "ABCDEFGHIJKLMNOPQRSTUVWXYZ"

LowerLetters == "abcdefghijklmnopqrstuvwxyz"

IsUpper(c) == \E i \in 1..26 : Char(UpperLetters, i) = c

IsLower(c) == \E i \in 1..26 : Char(LowerLetters, i) = c

LowerChar(c) ==
    IF IsUpper(c)
    THEN Char(LowerLetters, CHOOSE i \in 1..26 : Char(UpperLetters, i) = c)
    ELSE c

UpperChar(c) ==
    IF IsLower(c)
    THEN Char(UpperLetters, CHOOSE i \in 1..26 : Char(LowerLetters, i) = c)
    ELSE c

\* str.lower(): every character lower-cased (the string is halved at each
\* level, to keep the evaluation shallow on long descriptions)
RECURSIVE Lower(_)
Lower(s) ==
    IF s = "" THEN ""
    ELSE IF Len(s) = 1 THEN LowerChar(Char(s, 1))
    ELSE Lower(SubSeq(s, 1, Len(s) \div 2))
            \o Lower(SubSeq(s, Len(s) \div 2 + 1, Len(s)))

\* characters str.strip() and str.split() treat as whitespace
IsSpace(c) == c \in {" ", "\t", "\n", "\r"}

RECURSIVE LStrip(_)
LStrip(s) ==
    IF s # "" /\ IsSpace(Char(s, 1)) THEN LStrip(SubSeq(s, 2, Len(s))) ELSE s

RECURSIVE RStrip(_)
RStrip(s) ==
    IF s # "" /\ IsSpace(Char(s, Len(s)))
    THEN RStrip(SubSeq(s, 1, Len(s) - 1)) ELSE s

\* str.strip()
Strip(s) == RStrip(LStrip(s))

\* sub in s
Contains(sub, s) ==
    \E i \in 1..(Len(s) - Len(sub) + 1) : SubSeq(s, i, i + Len(sub) - 1) = sub

\* len(s.split()): the number of maximal runs of non-whitespace characters
SplitCount(s) ==
    Cardinality({i \in 1..Len(s) :
        /\ ~IsSpace(Char(s, i))
        /\ (i = 1 \/ IsSpace(Char(s, i - 1)))})

\* s.split(',')[0]
FirstSegment(s) ==
    IF Contains(",", s)
    THEN SubSeq(s, 1, (CHOOSE i \in 1..Len(s) :
                          /\ Char(s, i) = ","
                          /\ \A j \in 1..(i - 1) : Char(s, j) # ",") - 1)
    ELSE s

\* str.title(): a letter after a non-letter is upper-cased, other letters
\* are lower-cased
RECURSIVE TitleFrom(_, _)
TitleFrom(s, afterLetter) ==
    IF s = "" THEN ""
    ELSE LET c == Char(s, 1)
             isL == IsUpper(c) \/ IsLower(c)
         IN (IF afterLetter THEN LowerChar(c) ELSE UpperChar(c))
              \o TitleFrom(SubSeq(s, 2, Len(s)), isL)

Title(s) == TitleFrom(s, FALSE)

----------------------------------------------------------------------------
(* Deduplicator: EventScraper._add_event.                                  *)

\* an identifier that leaves the date out
IdentifierNoDate(event_data) == Get(event_data, "title", "")

\* identifier = f"{event_data.get('title', '')}_{event_data.get('date', '')}"
Identifier(event_data) ==
    Get(event_data, "title", "") \o "_" \o Get(event_data, "date", "")

\* a deduplicator that appends without recording the identifier
add_event_forgets(seen, evs, event_data) ==
    [seen |-> seen, events |-> Append(evs, event_data)]

\* a deduplicator in which a later duplicate replaces the kept record
add_event_last_wins(seen, evs, event_data) ==
    IF Identifier(event_data) \notin seen
    THEN [seen |-> seen \cup {Identifier(event_data)},
          events |-> Append(evs, event_data)]
    ELSE [seen |-> seen,
          events |-> [i \in 1..Len(evs) |->
                        IF Identifier(evs[i]) = Identifier(event_data)
                        THEN event_data ELSE evs[i]]]

\* _add_event: the new (seen_events, events) after offering event_data
_add_event(seen, evs, event_data) ==
    IF Identifier(event_data) \notin seen
    THEN [seen |-> seen \cup {Identifier(event_data)},
          events |-> Append(evs, event_data)]
    ELSE [seen |-> seen, events |-> evs]

----------------------------------------------------------------------------
(* Numbers.  Coordinates are fixed-point integers in units of 1/10000 of a *)
(* degree (the city table and the adapters give four decimals).            *)

Digits == "0123456789"

IsDigit(c) == \E i \in 1..10 : Char(Digits, i) = c

DigitVal(c) == (CHOOSE i \in 1..10 : Char(Digits, i) = c) - 1

AllDigits(s) == \A i \in 1..Len(s) : IsDigit(Char(s, i))

\* int(s) for a string of decimal digits ("" counts as 0)
RECURSIVE ToNat(_)
ToNat(s) ==
    IF s = "" THEN 0
    ELSE 10 * ToNat(SubSeq(s, 1, Len(s) - 1)) + DigitVal(Char(s, Len(s)))

\* str(n) for n >= 0
RECURSIVE NatToStr(_)
NatToStr(n) ==
    IF n < 10 THEN Char(Digits, n + 1)
    ELSE NatToStr(n \div 10) \o Char(Digits, (n % 10) + 1)

\* float(s) for a plain decimal numeral: [ok, val]; ok = FALSE stands for the
\* ValueError float() raises.  Digits after the fourth decimal are dropped.
Float(s) ==
    LET neg  == s # "" /\ Char(s, 1) = "-"
        body == IF neg THEN SubSeq(s, 2, Len(s)) ELSE s
        dot  == IF Contains(".", body)
                THEN CHOOSE i \in 1..Len(body) :
                        /\ Char(body, i) = "."
                        /\ \A j \in 1..(i - 1) : Char(body, j) # "."
                ELSE Len(body) + 1
        ip   == SubSeq(body, 1, dot - 1)
        fp   == SubSeq(body, dot + 1, Len(body))
        fp4  == SubSeq(fp \o "0000", 1, 4)
        ok   == AllDigits(ip) /\ AllDigits(fp) /\ (ip \o fp) # ""
        mag  == ToNat(ip) * 10000 + ToNat(fp4)
    IN IF ok THEN [ok |-> TRUE, val |-> IF neg THEN 0 - mag ELSE mag]
       ELSE [ok |-> FALSE, val |-> 0]

----------------------------------------------------------------------------
(* LocationResolver: EventScraper.geocode_address.                         *)

\* Python's None
None == [NoneType |-> TRUE]

\* bool(x) for None or a dict
Truthy(x) == x # None /\ DOMAIN x # {}

\* time.sleep(1.1), in tenths of a time unit
SleepTenths == 11

\* cache_key = address.lower().strip()
CacheKey(address) == Strip(Lower(address))

\* search_query that looks for the state in the address as written
SearchQueryCaseSensitive(address) ==
    IF ~Contains("indiana", address) /\ ~Contains(", in", address)
    THEN address \o ", Indiana"
    ELSE address

\* search_query: ", Indiana" is appended unless the text names the state
SearchQuery(address) ==
    IF ~Contains("indiana", Lower(address)) /\ ~Contains(", in", Lower(address))
    THEN address \o ", Indiana"
    ELSE address

\* The body of the try block after requests.get returned or raised `resp`:
\* [data, raised] where data is location_data or None and raised tells
\* whether an exception was raised (and caught by "except Exception").
ParseResponse(address, resp) ==
    IF resp.kind = "exception" THEN [data |-> None, raised |-> TRUE]
    ELSE IF resp.status_code # 200 THEN [data |-> None, raised |-> FALSE]
    ELSE IF resp.json = "invalid" THEN [data |-> None, raised |-> TRUE]
    ELSE IF Len(resp.json) = 0 THEN [data |-> None, raised |-> FALSE]
    ELSE LET result == resp.json[1]
         IN IF "lat" \notin DOMAIN result \/ "lon" \notin DOMAIN result
            THEN [data |-> None, raised |-> TRUE]
            ELSE IF ~Float(result.lat).ok \/ ~Float(result.lon).ok
            THEN [data |-> None, raised |-> TRUE]
            ELSE [data |-> [lat |-> Float(result.lat).val,
                            lng |-> Float(result.lon).val,
                            address |-> Get(result, "display_name", address)],
                  raised |-> FALSE]

\* lines 103-104: the cached entry is returned; nothing else happens
CacheHit(cache, cache_key) ==
    [result |-> cache[cache_key], cache |-> cache, effects |-> <<>>,
     raised |-> FALSE]

\* lines 116-120: time.sleep(1.1), then requests.get
RequestEffects(address) ==
    <<[op |-> "sleep", tenths |-> SleepTenths],
      [op |-> "get", query |-> SearchQuery(address)]>>

\* a cache miss that stores whatever the lookup gave, None included
CacheMissStoresFailure(cache, cache_key, p, effects) ==
    [result |-> p.data, cache |-> Put(cache, cache_key, p.data),
     effects |-> effects, raised |-> FALSE]

\* lines 106-139 with the outcome p of the try block: a result is stored in
\* the cache and returned, anything else returns None; "except Exception"
\* catches whatever was raised
CacheMiss(cache, cache_key, p, effects) ==
    [result |-> p.data,
     cache |-> IF p.data # None THEN Put(cache, cache_key, p.data) ELSE cache,
     effects |-> effects, raised |-> FALSE]

\* geocode_address that requests without sleeping first
geocode_address_no_sleep(cache, address, resp) ==
    IF CacheKey(address) \in DOMAIN cache
    THEN CacheHit(cache, CacheKey(address))
    ELSE CacheMiss(cache, CacheKey(address), ParseResponse(address, resp),
                   <<[op |-> "get", query |-> SearchQuery(address)]>>)

\* geocode_address keyed by the raw address, not its normalised form
geocode_address_raw_key(cache, address, resp) ==
    IF address \in DOMAIN cache
    THEN CacheHit(cache, address)
    ELSE CacheMiss(cache, address, ParseResponse(address, resp),
                   RequestEffects(address))

\* geocode_address that never stores what it resolved
geocode_address_no_store(cache, address, resp) ==
    [result |-> ParseResponse(address, resp).data, cache |-> cache,
     effects |-> RequestEffects(address), raised |-> FALSE]

\* geocode_address without the try/except: what is raised leaves the call
geocode_address_no_except(cache, address, resp) ==
    IF CacheKey(address) \in DOMAIN cache
    THEN CacheHit(cache, CacheKey(address))
    ELSE [CacheMiss(cache, CacheKey(address), ParseResponse(address, resp),
                    RequestEffects(address))
            EXCEPT !.raised = ParseResponse(address, resp).raised]

\* geocode_address(address) with the service answering `resp` if asked:
\*   result  - the returned location_data or None
\*   cache   - self.geocode_cache afterwards
\*   effects - the sleeps and requests made, in order
\*   raised  - whether an exception leaves the call (never: all are caught)
geocode_address(cache, address, resp) ==
    IF CacheKey(address) \in DOMAIN cache
    THEN CacheHit(cache, CacheKey(address))
    ELSE CacheMiss(cache, CacheKey(address), ParseResponse(address, resp),
                   RequestEffects(address))

----------------------------------------------------------------------------
(* EnrichmentPipeline: EventScraper.enrich_events, one loop iteration.     *)

\* the city table, in dict (insertion) order; coordinates in 1/10000 degree
indiana_cities ==
    << [city |-> "indianapolis", lat |-> 397684, lng |-> -861581],
       [city |-> "fort wayne", lat |-> 410793, lng |-> -851394],
       [city |-> "evansville", lat |-> 379747, lng |-> -875558],
       [city |-> "south bend", lat |-> 416764, lng |-> -862520],
       [city |-> "carmel", lat |-> 399784, lng |-> -861180],
       [city |-> "fishers", lat |-> 399567, lng |-> -860139],
       [city |-> "bloomington", lat |-> 391653, lng |-> -865264],
       [city |-> "lafayette", lat |-> 404167, lng |-> -868753],
       [city |-> "west lafayette", lat |-> 404259, lng |-> -869081],
       [city |-> "muncie", lat |-> 401934, lng |-> -853864],
       [city |-> "terre haute", lat |-> 394667, lng |-> -874139],
       [city |-> "kokomo", lat |-> 404864, lng |-> -861336],
       [city |-> "anderson", lat |-> 401053, lng |-> -856803],
       [city |-> "noblesville", lat |-> 400456, lng |-> -860086],
       [city |-> "westfield", lat |-> 400428, lng |-> -861275],
       [city |-> "greenwood", lat |-> 396136, lng |-> -861067],
       [city |-> "columbus", lat |-> 392014, lng |-> -859214],
       [city |-> "jeffersonville", lat |-> 382776, lng |-> -857372],
       [city |-> "new albany", lat |-> 382856, lng |-> -858241],
       [city |-> "valparaiso", lat |-> 414731, lng |-> -870611],
       [city |-> "hammond", lat |-> 415833, lng |-> -875000],
       [city |-> "gary", lat |-> 415934, lng |-> -873464],
       [city |-> "elkhart", lat |-> 416820, lng |-> -859767],
       [city |-> "mishawaka", lat |-> 416614, lng |-> -861586],
       [city |-> "goshen", lat |-> 415823, lng |-> -858347],
       [city |-> "plainfield", lat |-> 397042, lng |-> -863994],
       [city |-> "greenfield", lat |-> 397851, lng |-> -857694],
       [city |-> "richmond", lat |-> 398289, lng |-> -848902],
       [city |-> "logansport", lat |-> 407545, lng |-> -863567],
       [city |-> "marion", lat |-> 405584, lng |-> -856591],
       [city |-> "michigan city", lat |-> 417075, lng |-> -868950],
       [city |-> "crown point", lat |-> 414170, lng |-> -873653],
       [city |-> "munster", lat |-> 415645, lng |-> -875125],
       [city |-> "dyer", lat |-> 414942, lng |-> -875217],
       [city |-> "merrillville", lat |-> 414828, lng |-> -873328],
       [city |-> "odon", lat |-> 388417, lng |-> -869917],
       [city |-> "lawrence", lat |-> 398386, lng |-> -859936],
       [city |-> "newberry", lat |-> 389167, lng |-> -870333],
       [city |-> "french lick", lat |-> 385489, lng |-> -866197],
       [city |-> "bedford", lat |-> 388611, lng |-> -864872],
       [city |-> "jasper", lat |-> 383914, lng |-> -869311],
       [city |-> "vincennes", lat |-> 386773, lng |-> -875286],
       [city |-> "washington", lat |-> 386592, lng |-> -871728],
       [city |-> "scottsburg", lat |-> 386856, lng |-> -857703],
       [city |-> "seymour", lat |-> 389592, lng |-> -858903] >>

\* a scan that prefers the longest city name found in the title
FirstCityLongest(title_lower) ==
    IF \E i \in DOMAIN indiana_cities : Contains(indiana_cities[i].city, title_lower)
    THEN CHOOSE i \in DOMAIN indiana_cities :
            /\ Contains(indiana_cities[i].city, title_lower)
            /\ \A j \in DOMAIN indiana_cities :
                  Contains(indiana_cities[j].city, title_lower) =>
                      \/ Len(indiana_cities[j].city) < Len(indiana_cities[i].city)
                      \/ j >= i /\ Len(indiana_cities[j].city) = Len(indiana_cities[i].city)
    ELSE 0

\* the first table entry whose name occurs in the title, or 0
FirstCity(title_lower) ==
    IF \E i \in DOMAIN indiana_cities : Contains(indiana_cities[i].city, title_lower)
    THEN CHOOSE i \in DOMAIN indiana_cities :
            /\ Contains(indiana_cities[i].city, title_lower)
            /\ \A j \in 1..(i - 1) : ~Contains(indiana_cities[j].city, title_lower)
    ELSE 0

\* the default location (Indianapolis)
DefaultLocation ==
    [name |-> "Indianapolis", address |-> "Indianapolis, IN",
     lat |-> 397684, lng |-> -861581]

\* lines 2574-2579: the location built from table entry c
CityLocation(c) ==
    [name |-> Title(indiana_cities[c].city),
     address |-> Title(indiana_cities[c].city) \o ", Indiana",
     lat |-> indiana_cities[c].lat, lng |-> indiana_cities[c].lng]

FallbackOf(c) == IF c # 0 THEN CityLocation(c) ELSE DefaultLocation

\* a fallback that scans the title as written, not lower-cased
FallbackLocationCaseSensitive(event) == FallbackOf(FirstCity(Get(event, "title", "")))

\* a fallback without the final default: no city in the title, no location
FallbackLocationNoDefault(event) ==
    IF FirstCity(Lower(Get(event, "title", ""))) # 0
    THEN FallbackOf(FirstCity(Lower(Get(event, "title", ""))))
    ELSE None

\* steps 2 and 3 of the location resolution: city found in the title, else
\* the default
FallbackLocation(event) == FallbackOf(FirstCity(Lower(Get(event, "title", ""))))

\* a loop body that calls geocode_address for every non-empty address
TriesGeocodeAnyAddress(event) ==
    /\ "location" \in DOMAIN event
    /\ "address" \in DOMAIN event.location
    /\ event.location.address # ""

\* does the loop body call geocode_address for this event?
TriesGeocode(event) ==
    /\ "location" \in DOMAIN event
    /\ "address" \in DOMAIN event.location
    /\ event.location.address # ""
    /\ \/ Contains(",", event.location.address)
       \/ SplitCount(event.location.address) >= 3

\* any(keyword in text for keyword in keywords)
AnyIn(keywords, text) == \E i \in DOMAIN keywords : Contains(keywords[i], text)

free_keywords == <<"free", "no cost", "complimentary", "no charge", "$0">>

food_keywords ==
    <<"dinner", "lunch", "breakfast", "meal", "catering", "buffet",
      "food provided", "pizza", "sandwiches">>

food_event_types ==
    <<"breakfast", "brunch", "lunch", "dinner", "banquet", "feast", "potluck",
      "pitch-in", "restaurant", "steakhouse", "bistro", "cafe">>

appetizer_keywords ==
    <<"appetizer", "snacks", "light refreshments", "hors", "finger food", "apps">>

networking_keywords == <<"networking", "mixer", "meetup", "social", "reception">>

nonalc_keywords ==
    <<"coffee", "refreshments", "beverages", "soft drink", "water", "soda", "juice">>

coffee_events == <<"coffee", "1 million cups", "morning", "cowork">>

alc_keywords ==
    <<"happy hour", "beer", "wine", "cocktails", "bar", "drinks", "alcohol",
      "brewery", "spirits", "party">>

\* tags in which a drink is either alcoholic or not, and food rules out snacks
FeatureTagsExclusive(combined_text, is_captain_forged) ==
    [free |-> AnyIn(free_keywords, combined_text),
     food |-> \/ AnyIn(food_keywords, combined_text)
              \/ AnyIn(food_event_types, combined_text),
     appetizers |-> /\ ~AnyIn(food_keywords, combined_text)
                    /\ \/ AnyIn(appetizer_keywords, combined_text)
                       \/ AnyIn(networking_keywords, combined_text),
     nonAlcoholDrinks |-> /\ ~AnyIn(alc_keywords, combined_text)
                          /\ \/ AnyIn(nonalc_keywords, combined_text)
                             \/ AnyIn(coffee_events, combined_text),
     alcoholDrinks |-> AnyIn(alc_keywords, combined_text),
     captainForged |-> is_captain_forged]

\* lines 2597-2642: the tags of combined_text and the captainForged flag
FeatureTags(combined_text, is_captain_forged) ==
    [free |-> AnyIn(free_keywords, combined_text),
     food |-> \/ AnyIn(food_keywords, combined_text)
              \/ AnyIn(food_event_types, combined_text),
     appetizers |-> \/ AnyIn(appetizer_keywords, combined_text)
                    \/ AnyIn(networking_keywords, combined_text),
     nonAlcoholDrinks |-> \/ AnyIn(nonalc_keywords, combined_text)
                          \/ AnyIn(coffee_events, combined_text),
     alcoholDrinks |-> AnyIn(alc_keywords, combined_text),
     captainForged |-> is_captain_forged]

\* features that also read the name of the venue
FeaturesWithVenue(event) ==
    FeatureTags(Lower(Get(event, "title", "")) \o " "
                    \o Lower(Get(event, "description", "")) \o " "
                    \o Lower(Get(Get(event, "location", [name |-> ""]), "name", "")),
                Get(event, "captainForged", FALSE))

\* event['features'], from the title and the description the event has now
Features(event) ==
    FeatureTags(Lower(Get(event, "title", "")) \o " "
                    \o Lower(Get(event, "description", "")),
                Get(event, "captainForged", FALSE))

\* characters the stand-in for the built-in str hash tells apart
HashAlphabet ==
    " -.:0123456789ABCDEFGHIJKLMNOPQRSTUVWXYZ_abcdefghijklmnopqrstuvwxyz"

Ord(c) ==
    IF \E i \in 1..Len(HashAlphabet) : Char(HashAlphabet, i) = c
    THEN CHOOSE i \in 1..Len(HashAlphabet) : Char(HashAlphabet, i) = c
    ELSE 0

\* hash(s): Python salts str hashes with a per-process seed.  A 16-bit
\* polynomial hash stands in for it: a function of the seed and the string,
\* signed like Py_hash_t.
RECURSIVE HashFold(_, _)
HashFold(h, s) ==
    IF s = "" THEN h
    ELSE HashFold((h * 31 + Ord(Char(s, 1))) % 65536, SubSeq(s, 2, Len(s)))

PyHash(seed, s) ==
    LET u == HashFold(seed % 65536, s)
    IN IF u >= 32768 THEN u - 65536 ELSE u

Abs(n) == IF n < 0 THEN 0 - n ELSE n

\* str(abs(hash(title + date)))
EventId(seed, event) ==
    NatToStr(Abs(PyHash(seed, Get(event, "title", "") \o Get(event, "date", ""))))

\* backfill that sets the organizer whether or not the record has one
WithOrganizerAlways(event) ==
    Put(event, "organizer", Get(event, "source", "Unknown"))

\* lines 2645-2646
WithOrganizer(event) ==
    IF "organizer" \notin DOMAIN event
    THEN Put(event, "organizer", Get(event, "source", "Unknown"))
    ELSE event

\* lines 2648-2649
WithDescription(event) ==
    IF "description" \notin DOMAIN event
    THEN Put(event, "description",
             "Entrepreneur event: " \o Get(event, "title", ""))
    ELSE event

\* lines 2651-2652
WithId(seed, event) ==
    IF "id" \notin DOMAIN event THEN Put(event, "id", EventId(seed, event))
    ELSE event

\* location resolution that also fills in the default description
LocatedWithDescription(event, called, geo) ==
    WithDescription(IF called /\ Truthy(geo.result)
                    THEN Put(event, "location",
                             [name |-> IF Get(event.location, "name", "") # ""
                                       THEN Get(event.location, "name", "")
                                       ELSE FirstSegment(event.location.address),
                              address |-> event.location.address,
                              lat |-> geo.result.lat,
                              lng |-> geo.result.lng])
                    ELSE Put(event, "location", FallbackLocation(event)))

\* the "Add missing fields" part of the loop body
Backfill(seed, event) == WithId(seed, WithDescription(WithOrganizer(event)))

\* the answer of geocode_address when it is not called
NoGeocode(cache) ==
    [result |-> None, cache |-> cache, effects |-> <<>>, raised |-> FALSE]

\* a location resolution that keeps coordinates the adapter supplied when
\* the address is not geocoded
LocatedKeepsCoordinates(event, called, geo) ==
    IF called /\ Truthy(geo.result)
    THEN Put(event, "location",
             [name |-> IF Get(event.location, "name", "") # ""
                       THEN Get(event.location, "name", "")
                       ELSE FirstSegment(event.location.address),
              address |-> event.location.address,
              lat |-> geo.result.lat,
              lng |-> geo.result.lng])
    ELSE IF "location" \in DOMAIN event /\ "lat" \in DOMAIN event.location
    THEN event
    ELSE Put(event, "location", FallbackLocation(event))

\* lines 2560-2590: event['location'] after the geocoding attempt
Located(event, called, geo) ==
    IF called /\ Truthy(geo.result)
    THEN Put(event, "location",
             [name |-> IF Get(event.location, "name", "") # ""
                       THEN Get(event.location, "name", "")
                       ELSE FirstSegment(event.location.address),
              address |-> event.location.address,
              lat |-> geo.result.lat,
              lng |-> geo.result.lng])
    ELSE Put(event, "location", FallbackLocation(event))

\* lines 2592-2642
Tagged(event) == Put(event, "features", Features(event))

\* the loop body given what geocode_address did
EnrichWith(seed, event, called, geo) ==
    [event |-> IF geo.raised THEN event
               ELSE Backfill(seed, Tagged(Located(event, called, geo))),
     geo |-> geo, called |-> called, raised |-> geo.raised]

\* One iteration of "for event in self.events" with the geocoding service
\* answering `resp` if it is asked:
\*   event   - the event afterwards
\*   geo     - what geocode_address did (NoGeocode if it was not called)
\*   called  - whether geocode_address was called
\*   raised  - whether an exception leaves the loop body
EnrichOne(seed, event, cache, resp) ==
    EnrichWith(seed, event, TriesGeocode(event),
               IF TriesGeocode(event)
               THEN geocode_address(cache, event.location.address, resp)
               ELSE NoGeocode(cache))

----------------------------------------------------------------------------
(* TemporalFilter: EventScraper.filter_past_events.                        *)

IsLeap(y) == (y % 4 = 0 /\ y % 100 # 0) \/ y % 400 = 0

DaysInMonth(y, m) ==
    IF m = 2 THEN (IF IsLeap(y) THEN 29 ELSE 28)
    ELSE IF m \in {4, 6, 9, 11} THEN 30 ELSE 31

\* days from 1970-01-01 to the civil date y-m-d
DaysFromCivil(y, m, d) ==
    LET yy  == IF m <= 2 THEN y - 1 ELSE y
        era == yy \div 400
        yoe == yy - era * 400
        mp  == IF m > 2 THEN m - 3 ELSE m + 9
        doy == (153 * mp + 2) \div 5 + d - 1
        doe == yoe * 365 + yoe \div 4 - yoe \div 100 + doy
    IN era * 146097 + doe - 719468

\* dateutil.parser.parse on the date strings datetime.isoformat() writes:
\* YYYY-MM-DD[THH:MM:SS[.ffffff]][Z or +HH:MM or -HH:MM].  Any other text is
\* taken as unparseable (ok = FALSE stands for the exception parse raises).
\*   t - seconds since 1970-01-01T00:00:00 of the wall-clock reading
\*   us - microseconds;  aware - whether the result carries a tzinfo
ParseDate(s) ==
    LET fail == [ok |-> FALSE, aware |-> FALSE, t |-> 0, us |-> 0]
        dpart == SubSeq(s, 1, 10)
        dateOk == /\ Len(s) >= 10
                  /\ AllDigits(SubSeq(s, 1, 4)) /\ Char(s, 5) = "-"
                  /\ AllDigits(SubSeq(s, 6, 7)) /\ Char(s, 8) = "-"
                  /\ AllDigits(SubSeq(s, 9, 10))
        y == ToNat(SubSeq(s, 1, 4))
        m == ToNat(SubSeq(s, 6, 7))
        d == ToNat(SubSeq(s, 9, 10))
        hasTime == Len(s) >= 19 /\ Char(s, 11) \in {"T", " "}
        timeOk == /\ AllDigits(SubSeq(s, 12, 13)) /\ Char(s, 14) = ":"
                  /\ AllDigits(SubSeq(s, 15, 16)) /\ Char(s, 17) = ":"
                  /\ AllDigits(SubSeq(s, 18, 19))
        hh == ToNat(SubSeq(s, 12, 13))
        mi == ToNat(SubSeq(s, 15, 16))
        ss == ToNat(SubSeq(s, 18, 19))
        afterTime == IF hasTime THEN SubSeq(s, 20, Len(s)) ELSE SubSeq(s, 11, Len(s))
        hasFrac == Len(afterTime) >= 7 /\ Char(afterTime, 1) = "."
        fracOk == AllDigits(SubSeq(afterTime, 2, 7))
        us == IF hasFrac THEN ToNat(SubSeq(afterTime, 2, 7)) ELSE 0
        zone == IF hasFrac THEN SubSeq(afterTime, 8, Len(afterTime)) ELSE afterTime
        zoneOk == \/ zone \in {"", "Z"}
                  \/ /\ Len(zone) = 6 /\ Char(zone, 1) \in {"+", "-"}
                     /\ AllDigits(SubSeq(zone, 2, 3)) /\ Char(zone, 4) = ":"
                     /\ AllDigits(SubSeq(zone, 5, 6))
    IN IF ~dateOk THEN fail
       ELSE IF ~(m \in 1..12 /\ d \in 1..DaysInMonth(y, m) /\ y \in 1971..2037)
       THEN fail
       ELSE IF hasTime /\ ~(timeOk /\ hh < 24 /\ mi < 60 /\ ss < 60) THEN fail
       ELSE IF hasFrac /\ ~fracOk THEN fail
       ELSE IF ~zoneOk THEN fail
       ELSE [ok |-> TRUE, aware |-> zone # "",
             t |-> DaysFromCivil(y, m, d) * 86400
                     + (IF hasTime THEN hh * 3600 + mi * 60 + ss ELSE 0),
             us |-> us]

\* cutoff_date = datetime.now() - timedelta(days=7), now in whole seconds
CutoffDate(now) == now - 7 * 86400

\* a filter that keeps only what is later than the cutoff
KeepsEventAfterCutoff(event, now) ==
    LET event_date_str == Get(event, "date", "")
        p == ParseDate(event_date_str)
    IN \/ event_date_str = "" \/ event_date_str = "TBD"
       \/ ~p.ok
       \/ p.aware
       \/ p.t > CutoffDate(now)

\* a filter that drops what it cannot date
KeepsEventFailClosed(event, now) ==
    LET event_date_str == Get(event, "date", "")
        p == ParseDate(event_date_str)
    IN /\ event_date_str # "" /\ event_date_str # "TBD"
       /\ p.ok /\ ~p.aware
       /\ p.t >= CutoffDate(now)

\* a filter that compares dates with UTC offset like the others
KeepsEventAwareCompared(event, now) ==
    LET event_date_str == Get(event, "date", "")
        p == ParseDate(event_date_str)
    IN \/ event_date_str = "" \/ event_date_str = "TBD"
       \/ ~p.ok
       \/ p.t >= CutoffDate(now)

\* does the loop body append the event to filtered_events?
KeepsEvent(event, now) ==
    LET event_date_str == Get(event, "date", "")
        p == ParseDate(event_date_str)
    IN \/ event_date_str = "" \/ event_date_str = "TBD"
       \/ ~p.ok                       \* parse raised: kept by the except
       \/ p.aware                     \* aware >= naive raises: kept by the except
       \/ p.t >= CutoffDate(now)      \* cutoff has no microseconds here

\* the sequence backwards
RECURSIVE Reverse(_)
Reverse(q) == IF q = <<>> THEN <<>> ELSE Append(Reverse(Tail(q)), Head(q))

\* a filter that returns the kept events newest first
filter_past_events_reversed(evs, now) ==
    Reverse(SelectSeq(evs, LAMBDA e : KeepsEvent(e, now)))

\* filter_past_events: the new self.events
filter_past_events(evs, now) ==
    SelectSeq(evs, LAMBDA e : KeepsEvent(e, now))

----------------------------------------------------------------------------
(* Recurring events: EventScraper.scrape_1mc and _get_next_1mc_date.  A     *)
(* datetime is [y, m, d, s] with s the seconds since midnight.              *)

\* range(14): the month offsets of the recurring records
RecurringMonths == 14

\* datetime.weekday(): Monday is 0 (1970-01-01 was a Thursday)
Weekday(dt) == (DaysFromCivil(dt.y, dt.m, dt.d) + 3) % 7

\* a < b for datetimes
Before(a, b) ==
    \/ a.y < b.y
    \/ a.y = b.y /\ a.m < b.m
    \/ a.y = b.y /\ a.m = b.m /\ a.d < b.d
    \/ a.y = b.y /\ a.m = b.m /\ a.d = b.d /\ a.s < b.s

\* dt + relativedelta(months=k): the day is cut to the length of the month
AddMonths(dt, k) ==
    LET total == (dt.m - 1) + k
        yy == dt.y + total \div 12
        mm == (total % 12) + 1
    IN [y |-> yy, m |-> mm,
        d |-> IF dt.d > DaysInMonth(yy, mm) THEN DaysInMonth(yy, mm) ELSE dt.d,
        s |-> dt.s]

\* dt + timedelta(days=n) for n up to 28
AddDays(dt, n) ==
    IF dt.d + n <= DaysInMonth(dt.y, dt.m) THEN [dt EXCEPT !.d = dt.d + n]
    ELSE [y |-> IF dt.m = 12 THEN dt.y + 1 ELSE dt.y,
          m |-> IF dt.m = 12 THEN 1 ELSE dt.m + 1,
          d |-> dt.d + n - DaysInMonth(dt.y, dt.m),
          s |-> dt.s]

\* a date function that always answers for the month asked for
get_next_1mc_date_no_skip(today, city, offset_months) ==
    LET start_month == AddMonths(today, offset_months)
        first_day == [start_month EXCEPT !.d = 1, !.s = 8 * 3600]
        days_until_wed == (2 - Weekday(first_day)) % 7
    IN IF Contains("South Bend", city)
       THEN AddDays(AddDays(first_day, days_until_wed), 7)
       ELSE [AddDays(start_month,
                     IF (2 - Weekday(start_month)) % 7 = 0 /\ ~Before(today, start_month)
                     THEN 7 ELSE (2 - Weekday(start_month)) % 7)
               EXCEPT !.s = 9 * 3600]

\* _get_next_1mc_date(city, offset_months) with datetime.now() reading
\* `today`: the second Wednesday of the month at 08:00 for South Bend (that
\* of the next month when it has passed and the offset is 0), the next
\* Wednesday at 09:00 for Indianapolis
RECURSIVE get_next_1mc_date(_, _, _)
get_next_1mc_date(today, city, offset_months) ==
    LET start_month == AddMonths(today, offset_months)
        first_day == [start_month EXCEPT !.d = 1, !.s = 8 * 3600]
        days_until_wed == (2 - Weekday(first_day)) % 7
        first_wed == AddDays(first_day, days_until_wed)
        second_wed == AddDays(first_wed, 7)
        days_ahead == (2 - Weekday(start_month)) % 7
    IN IF Contains("South Bend", city)
       THEN IF Before(second_wed, today) /\ offset_months = 0
            THEN get_next_1mc_date(today, city, 1)
            ELSE second_wed
       ELSE [AddDays(start_month,
                     IF days_ahead = 0 /\ ~Before(today, start_month)
                     THEN 7 ELSE days_ahead)
               EXCEPT !.s = 9 * 3600]

\* str(n) with zeros in front up to `width` characters
RECURSIVE Padded(_, _)
Padded(n, width) ==
    IF Len(NatToStr(n)) >= width THEN NatToStr(n)
    ELSE "0" \o Padded(n, width - 1)

\* datetime.isoformat() of a datetime without microseconds
IsoFormat(dt) ==
    Padded(dt.y, 4) \o "-" \o Padded(dt.m, 2) \o "-" \o Padded(dt.d, 2) \o "T"
        \o Padded(dt.s \div 3600, 2) \o ":" \o Padded((dt.s % 3600) \div 60, 2)
        \o ":" \o Padded(dt.s % 60, 2)

\* line 622: the city is read off the URL of the source
CityOf(source) ==
    IF Contains("indy", Lower(source.url)) THEN "Indianapolis" ELSE "South Bend"

\* line 627: the description when the page offers none of suitable length
StockDescription ==
    "Join entrepreneurs for coffee, conversation, and connections. Two startup presentations followed by community feedback and networking."

\* lines 645-652: the record of month offset i
RecurringRecord(source, today, i) ==
    [title |-> "1 Million Cups " \o CityOf(source),
     description |-> StockDescription,
     url |-> source.url,
     date |-> IsoFormat(get_next_1mc_date(today, CityOf(source), i)),
     source |-> source.name]

----------------------------------------------------------------------------
(* Inputs: the records the adapters hand to _add_event, the answers of the *)
(* geocoding service, the readings of datetime.now() in the filter.        *)

\* scrape_meetup: title, url and source only
RecMeetup ==
    [title |-> "Gary Founders Meetup", url |-> "https://meetup.example/1",
     source |-> "Meetup"]

\* scrape_ical: a calendar entry that is still to come when it is scraped
RecIcal ==
    [title |-> "Pitch Night", description |-> "Free pizza and beer",
     url |-> "https://a.example/pitch", date |-> "2025-01-10T18:00:00",
     source |-> "Calendar A"]

\* the same event listed by a second feed: same title and date, other fields
RecIcalDup ==
    [title |-> "Pitch Night", description |-> "Pitch Night",
     url |-> "https://b.example/pitch", date |-> "2025-01-10T18:00:00",
     source |-> "Calendar B"]

\* scrape_luma: a scraped address, to be geocoded
RecLuma ==
    [title |-> "Demo Day", description |-> "Demo Day",
     url |-> "https://lu.example/demo", date |-> "2025-02-01T09:00:00",
     source |-> "Luma", captainForged |-> TRUE,
     location |-> [name |-> "1 Main St", address |-> "1 Main St, Gary"]]

\* scrape_luma: the same title on another day, the same address in another
\* letter case
RecLumaUpper ==
    [title |-> "Demo Day", description |-> "Morning cowork",
     url |-> "https://lu.example/coffee", date |-> "2025-02-02T09:00:00",
     source |-> "Luma", captainForged |-> FALSE,
     location |-> [name |-> "The Hub", address |-> "1 MAIN ST, GARY"]]

\* scrape_fwmoa: admitted up to 30 days old, with coordinates of its own
RecFwmoa ==
    [title |-> "Exhibition: Glass",
     description |-> "Art exhibition at Fort Wayne Museum of Art: Glass",
     url |-> "https://www.fwmoa.org/glass", date |-> "2025-01-01T00:00:00",
     source |-> "FWMoA",
     location |-> [name |-> "Fort Wayne Museum of Art",
                   address |-> "311 E Main St, Fort Wayne, IN 46802",
                   lat |-> 410793, lng |-> -851394]]

\* scrape_fwmoa: a second exhibition, with the same hard-coded address
RecFwmoaNext ==
    [title |-> "Exhibition: Clay",
     description |-> "Art exhibition at Fort Wayne Museum of Art: Clay",
     url |-> "https://www.fwmoa.org/clay", date |-> "2025-03-01T00:00:00",
     source |-> "FWMoA",
     location |-> [name |-> "Fort Wayne Museum of Art",
                   address |-> "311 E Main St, Fort Wayne, IN 46802",
                   lat |-> 410793, lng |-> -851394]]

\* scrape_1mc: a generated recurring record, with the page's stock description
Rec1mc ==
    [title |-> "1 Million Cups Indianapolis",
     description |-> "Join entrepreneurs for coffee, conversation, and connections. Two startup presentations followed by community feedback and networking.",
     url |-> "https://www.1millioncups.com/indy", date |-> "2025-02-12T09:00:00",
     source |-> "1 Million Cups"]

\* scrape_meetup: a title that is the whole text feature detection sees
RecMixer ==
    [title |-> "Free networking mixer with coffee and beer",
     url |-> "https://meetup.example/2", source |-> "Meetup"]

\* the record scrape_purdue_foundry builds: organizer set, date "TBD" when
\* the page shows none
RecPurdue ==
    [title |-> "Founders Lunch", date |-> "TBD",
     location |-> [name |-> "Purdue Foundry", address |-> "West Lafayette, IN"],
     url |-> "https://purduefoundry.example/events",
     organizer |-> "Purdue Foundry", source |-> "Purdue Foundry"]

\* the record scrape_startup_grind builds: an organizer that is not the
\* source name, no date, no description
RecStartupGrind ==
    [title |-> "Fireside Chat",
     location |-> [name |-> "Indianapolis", address |-> "Indianapolis, IN"],
     url |-> "https://www.startupgrind.com/indianapolis",
     organizer |-> "Startup Grind Indianapolis", source |-> "Startup Grind"]

\* a record that comes with an id of its own
RecIdentified ==
    [title |-> "Founder Breakfast", description |-> "Breakfast for founders",
     url |-> "https://a.example/breakfast", date |-> "2025-02-20T08:00:00",
     source |-> "Calendar A", id |-> "evt-42"]

\* scrape_techpoint with the date read from the event's own page, which is
\* not compared with the clock: any age, with or without a UTC offset
TechpointOn(date) ==
    [title |-> "Tech Talk", description |-> "Tech Talk",
     url |-> "https://techpoint.example/talk", date |-> date,
     source |-> "TechPoint"]

\* exactly 7 days before 2025-01-08T00:00:00
RecAtCutoff == TechpointOn("2025-01-01T00:00:00")

\* one second earlier
RecBeforeCutoff == TechpointOn("2024-12-31T23:59:59")

RecFuture == TechpointOn("2025-03-01T18:00:00")

\* months old, written with a UTC offset
RecAware == TechpointOn("2024-06-01T10:00:00-04:00")

\* the scrape_purdue_foundry record when the date element is empty
RecEmptyDate == [RecPurdue EXCEPT !.title = "Office Hours", !.date = ""]

\* the scrape_purdue_foundry record when the date element holds no date
RecUnparseable == [RecPurdue EXCEPT !.title = "Demo Night", !.date = "Coming soon"]

RawRecords ==
    {RecMeetup, RecIcal, RecIcalDup, RecLuma, RecLumaUpper, RecFwmoa, RecFwmoaNext}

\* Records for the deduplicator alone: titles are scraped text (an underscore
\* or a date may occur in them), dates are absent or written by isoformat().
KeyTitles ==
    {"Pitch Night", "Pitch Night_", "Pitch Night_2025-01-01",
     "Pitch Night_2025-01-01T00:00:00", "pitch night", "Pitch"}

KeyDates ==
    {"2025-01-01T00:00:00", "2025-01-01T00:00:00.000001", "2025-01-02T00:00:00"}

KeyRecords ==
    {[title |-> t, source |-> "Meetup"] : t \in KeyTitles}
      \cup {[title |-> t, date |-> d, source |-> "Calendar A"] :
                t \in KeyTitles, d \in KeyDates}
      \cup {RecIcal, RecIcalDup}

\* requests.get raised (network error, timeout)
RespException == [kind |-> "exception"]

RespNon200 == [kind |-> "response", status_code |-> 503, json |-> <<>>]

RespEmpty == [kind |-> "response", status_code |-> 200, json |-> <<>>]

\* a candidate whose latitude float() cannot parse
RespBadLat ==
    [kind |-> "response", status_code |-> 200,
     json |-> <<[lat |-> "n/a", lon |-> "-87.3464"]>>]

RespOk ==
    [kind |-> "response", status_code |-> 200,
     json |-> <<[lat |-> "41.5934", lon |-> "-87.3464",
                 display_name |-> "1 Main Street, Gary, Indiana"]>>]

\* another answer of the service, without display_name
RespOkMoved ==
    [kind |-> "response", status_code |-> 200,
     json |-> <<[lat |-> "41.6", lon |-> "-87.35"]>>]

Responses ==
    {RespException, RespNon200, RespEmpty, RespBadLat, RespOk, RespOkMoved}

\* was `resp` a successful lookup of `address`?
IsSuccess(address, resp) == ParseResponse(address, resp).data # None

\* readings of datetime.now() when filter_past_events runs, in seconds
FilterNows ==
    {ParseDate("2025-01-08T00:00:00").t, ParseDate("2025-01-08T00:00:01").t}

HashSeeds == {0, 1}

EmptyDict == [k \in {} |-> None]

NoResp == [kind |-> "none"]

----------------------------------------------------------------------------
(* The run: main() and the loops of scrape_all and enrich_events.          *)

Init ==
    /\ events = <<>>
    /\ seen_events = {}
    /\ geocode_cache = EmptyDict
    /\ pc = "scrape"
    /\ ei = 1
    /\ clock = 0
    /\ offered = <<>>
    /\ admitLog = <<>>
    /\ extCalls = <<>>
    /\ geoLog = <<>>
    /\ lastResp = NoResp
    /\ filterNow = 0
    /\ catalog = <<>>
    /\ hashseed \in HashSeeds
    /\ si = 1
    /\ scraped = <<>>

\* an adapter calls self._add_event(event_data)
AddEvent(event_data) ==
    /\ pc = "scrape"
    /\ Len(offered) < MaxOffers
    /\ LET a == _add_event(seen_events, events, event_data)
       IN /\ seen_events' = a.seen
          /\ events' = a.events
          /\ admitLog' = IF Len(a.events) > Len(events)
                         THEN Append(admitLog, Identifier(event_data))
                         ELSE admitLog
    /\ offered' = Append(offered, event_data)
    /\ UNCHANGED <<geocode_cache, pc, ei, clock, extCalls, geoLog, lastResp,
                   filterNow, catalog, hashseed,
                   si, scraped>>

\* scrape_all returns; main calls enrich_events
ScrapeAllReturns ==
    /\ pc = "scrape"
    /\ pc' = "enrich"
    /\ ei' = 1
    /\ UNCHANGED <<events, seen_events, geocode_cache, clock, offered, admitLog,
                   extCalls, geoLog, lastResp, filterNow, catalog, hashseed,
                   si, scraped>>

\* the clock after the effects of one geocode_address call
RECURSIVE ClockAfter(_, _)
ClockAfter(c, effects) ==
    IF effects = <<>> THEN c
    ELSE ClockAfter(IF Head(effects).op = "sleep" THEN c + Head(effects).tenths ELSE c,
                    Tail(effects))

\* the requests among the effects, each stamped with the clock it is made
\* at, the time slept in this call before it, and whether it resolved
RECURSIVE RequestsOf(_, _, _, _)
RequestsOf(c, effects, log, ok) ==
    IF effects = <<>> THEN <<>>
    ELSE IF Head(effects).op = "sleep"
    THEN RequestsOf(c + Head(effects).tenths, Tail(effects), log, ok)
    ELSE <<[key |-> log.key, address |-> log.address,
            query |-> Head(effects).query, at |-> c,
            slept |-> c - clock, ok |-> ok]>>
           \o RequestsOf(c, Tail(effects), log, ok)

\* what the geocode_address call of the loop iteration with outcome r (an
\* EnrichOne value) leaves behind: cache, clock, and the histories
GeocodeStep(r, resp) ==
    /\ geocode_cache' = r.geo.cache
    /\ clock' = ClockAfter(clock, r.geo.effects)
    /\ extCalls' = extCalls \o
          IF r.called
          THEN RequestsOf(clock, r.geo.effects,
                          [key |-> CacheKey(events[ei].location.address),
                           address |-> events[ei].location.address],
                          r.geo.result # None)
          ELSE <<>>
    /\ geoLog' = IF r.called
                 THEN Append(geoLog,
                         [event |-> ei, address |-> events[ei].location.address,
                          cached |-> CacheKey(events[ei].location.address)
                                        \in DOMAIN geocode_cache,
                          effects |-> r.geo.effects,
                          result |-> r.geo.result])
                 ELSE geoLog
    /\ lastResp' = IF r.called /\ r.geo.effects # <<>> THEN resp ELSE NoResp

\* the state after one loop iteration whose outcome is r (an EnrichOne value)
EnrichStep(r, resp) ==
    /\ events' = [events EXCEPT ![ei] = r.event]
    /\ GeocodeStep(r, resp)
    /\ pc' = IF r.raised THEN "failed" ELSE "enrich"
    /\ ei' = IF r.raised THEN ei ELSE ei + 1

\* one iteration of the for loop of enrich_events
EnrichEvent(resp) ==
    /\ pc = "enrich"
    /\ ei <= Len(events)
    /\ EnrichStep(EnrichOne(hashseed, events[ei], geocode_cache, resp), resp)
    /\ UNCHANGED <<seen_events, offered, admitLog, filterNow, catalog, hashseed,
                   si, scraped>>

\* the for loop is exhausted: enrich_events returns, main calls the filter
EnrichReturns ==
    /\ pc = "enrich"
    /\ ei > Len(events)
    /\ pc' = "filter"
    /\ lastResp' = NoResp
    /\ UNCHANGED <<events, seen_events, geocode_cache, ei, clock, offered,
                   admitLog, extCalls, geoLog, filterNow, catalog, hashseed,
                   si, scraped>>

\* filter_past_events with datetime.now() reading `now`
FilterPastEvents(now) ==
    /\ pc = "filter"
    /\ events' = filter_past_events(events, now)
    /\ pc' = "save"
    /\ filterNow' = now
    /\ UNCHANGED <<seen_events, geocode_cache, ei, clock, offered, admitLog,
                   extCalls, geoLog, lastResp, catalog, hashseed,
                   si, scraped>>

\* save_to_json writes self.events; main returns 0
SaveToJson ==
    /\ pc = "save"
    /\ catalog' = events
    /\ pc' = "done"
    /\ UNCHANGED <<events, seen_events, geocode_cache, ei, clock, offered,
                   admitLog, extCalls, geoLog, lastResp, filterNow, hashseed,
                   si, scraped>>

Next ==
    \/ \E event_data \in RawRecords : AddEvent(event_data)
    \/ ScrapeAllReturns
    \/ \E resp \in Responses : EnrichEvent(resp)
    \/ EnrichReturns
    \/ \E now \in FilterNows : FilterPastEvents(now)
    \/ SaveToJson

Spec == Init /\ [][Next]_vars

\* the deduplicator alone, over KeyRecords
NextDedup == \E event_data \in KeyRecords : AddEvent(event_data)

SpecDedup == Init /\ [][NextDedup]_vars

\* self.sources: the configured sources, with the records the extraction of
\* each would hand to _add_event ("enabled" absent means enabled)
Sources ==
    << [name |-> "Meetup", type |-> "meetup_group", yields |-> {RecMeetup, RecMixer}],
       [name |-> "Calendar B", type |-> "ical", enabled |-> FALSE,
        yields |-> {RecIcalDup}],
       [name |-> "Calendar A", type |-> "ical", enabled |-> TRUE,
        yields |-> {RecIcal}],
       [name |-> "1 Million Cups", type |-> "custom", enabled |-> TRUE,
        yields |-> {Rec1mc}] >>

\* scrape_all with the adapter call outside any try: what is raised leaves
\* scrape_all
scrape_all_uncaught(i, raised) ==
    IF raised THEN [pc |-> "failed", si |-> i]
    ELSE [pc |-> "scrape", si |-> i + 1]

\* lines 150-162: after the adapter call for source i returned or raised,
\* the for loop goes on with the next source ("except Exception" prints)
scrape_all_next(i, raised) == [pc |-> "scrape", si |-> i + 1]

\* scrape_all is at source si, which is enabled
AtEnabledSource ==
    /\ pc = "scrape"
    /\ si <= Len(Sources)
    /\ Get(Sources[si], "enabled", TRUE)

\* lines 146-147: a source that is not enabled is passed over
SourceSkipped ==
    /\ pc = "scrape"
    /\ si <= Len(Sources)
    /\ ~Get(Sources[si], "enabled", TRUE)
    /\ si' = si + 1
    /\ scraped' = Append(scraped, [source |-> si, outcome |-> "skipped"])
    /\ UNCHANGED <<events, seen_events, geocode_cache, pc, ei, clock, offered,
                   admitLog, extCalls, geoLog, lastResp, filterNow, catalog,
                   hashseed>>

\* the adapter of source si hands a record to _add_event
SourceOffers(event_data) ==
    /\ AtEnabledSource
    /\ event_data \in Sources[si].yields
    /\ AddEvent(event_data)

\* the adapter call of source si ends: it returns, or it raises
SourceEnds(raised) ==
    /\ AtEnabledSource
    /\ pc' = scrape_all_next(si, raised).pc
    /\ si' = scrape_all_next(si, raised).si
    /\ scraped' = Append(scraped,
                      [source |-> si,
                       outcome |-> IF raised THEN "raised" ELSE "returned"])
    /\ UNCHANGED <<events, seen_events, geocode_cache, ei, clock, offered,
                   admitLog, extCalls, geoLog, lastResp, filterNow, catalog,
                   hashseed>>

SourceReturns == SourceEnds(FALSE)

SourceRaises == SourceEnds(TRUE)

\* lines 164-165: the for loop is exhausted, scrape_all returns
ScrapeAllDone ==
    /\ si > Len(Sources)
    /\ ScrapeAllReturns

\* the records the sources can yield
SourceRecords == UNION {Sources[k].yields : k \in DOMAIN Sources}

NextScrape ==
    \/ SourceSkipped
    \/ \E event_data \in SourceRecords : SourceOffers(event_data)
    \/ SourceReturns
    \/ SourceRaises
    \/ ScrapeAllDone

\* scrape_all alone, source by source
SpecScrape == Init /\ [][NextScrape]_vars

\* the record scrape_notre_dame_idea builds: no date, organizer set
RecNotreDame ==
    [title |-> "IDEA Week Kickoff",
     location |-> [name |-> "Notre Dame IDEA Center", address |-> "South Bend, IN"],
     url |-> "https://ideacenter.example/events",
     organizer |-> "Notre Dame IDEA Center", source |-> "Notre Dame"]

\* the record scrape_madjax builds: venue, address and coordinates are
\* constants of the adapter
RecMadjax ==
    [title |-> "Laser Cutter Basics", description |-> "Laser Cutter Basics",
     url |-> "https://www.madjax.org/laser", date |-> "2025-02-15T00:00:00",
     source |-> "Madjax Muncie",
     location |-> [name |-> "Madjax Maker Force",
                   address |-> "515 E Main St, Muncie, IN 47305",
                   lat |-> 401934, lng |-> -853864]]

\* scrape_custom: the branches of the if/elif chain in source order; a
\* branch is taken when the name contains one of `any` (an "or" test) or
\* every one of `all` (an "and" test)
CustomBranches ==
    << [adapter |-> "scrape_techpoint", any |-> {"TechPoint"}, all |-> {}],
       [adapter |-> "scrape_1mc", any |-> {"1 Million Cups", "1MC"}, all |-> {}],
       [adapter |-> "scrape_16tech", any |-> {"16 Tech"}, all |-> {}],
       [adapter |-> "scrape_dimension_mill", any |-> {"Dimension Mill", "The Mill"}, all |-> {}],
       [adapter |-> "scrape_launch_fishers", any |-> {"Launch Fishers"}, all |-> {}],
       [adapter |-> "scrape_venture_club", any |-> {"Venture Club"}, all |-> {}],
       [adapter |-> "scrape_purdue_foundry", any |-> {"Purdue Foundry"}, all |-> {}],
       [adapter |-> "scrape_notre_dame_idea", any |-> {"Notre Dame", "IDEA Center"}, all |-> {}],
       [adapter |-> "scrape_iu_bloomington", any |-> {"IU Bloomington", "Indiana University"}, all |-> {}],
       [adapter |-> "scrape_iupui", any |-> {"IUPUI"}, all |-> {}],
       [adapter |-> "scrape_elevate_ventures", any |-> {"Elevate Ventures"}, all |-> {}],
       [adapter |-> "scrape_high_alpha", any |-> {"High Alpha"}, all |-> {}],
       [adapter |-> "scrape_startup_grind", any |-> {"Startup Grind"}, all |-> {}],
       [adapter |-> "scrape_union_525", any |-> {"Union 525"}, all |-> {}],
       [adapter |-> "scrape_sbdc", any |-> {"SBDC"}, all |-> {}],
       [adapter |-> "scrape_indy_chamber", any |-> {"Indy Chamber"}, all |-> {}],
       [adapter |-> "scrape_downtown_indy", any |-> {"Downtown Indy"}, all |-> {}],
       [adapter |-> "scrape_visit_indy", any |-> {"Visit Indy"}, all |-> {}],
       [adapter |-> "scrape_matchbox", any |-> {"MatchBOX"}, all |-> {}],
       [adapter |-> "scrape_madjax", any |-> {"Madjax"}, all |-> {}],
       [adapter |-> "scrape_flagship", any |-> {"Flagship"}, all |-> {}],
       [adapter |-> "scrape_iu_innovates", any |-> {"IU Innovates"}, all |-> {}],
       [adapter |-> "scrape_indy_arts", any |-> {"Indy Arts"}, all |-> {}],
       [adapter |-> "scrape_fwmoa", any |-> {"Fort Wayne Museum", "FWMoA"}, all |-> {}],
       [adapter |-> "scrape_newfields", any |-> {"Newfields"}, all |-> {}],
       [adapter |-> "scrape_lower_lincoln", any |-> {"Lower Lincoln"}, all |-> {}],
       [adapter |-> "scrape_innovation_connector", any |-> {"Innovation Connector"}, all |-> {}],
       [adapter |-> "scrape_niic", any |-> {"Northeast Indiana Innovation", "NIIC"}, all |-> {}],
       [adapter |-> "scrape_innovation_park_nd", any |-> {}, all |-> {"Innovation Park", "Notre Dame"}],
       [adapter |-> "scrape_crane_defense", any |-> {}, all |-> {"Crane", "Defense"}],
       [adapter |-> "scrape_bic", any |-> {"Battery Innovation"}, all |-> {}],
       [adapter |-> "scrape_hg_accelerator", any |-> {}, all |-> {"Heritage Group", "Accelerator"}],
       [adapter |-> "scrape_ninetwelve", any |-> {"NineTwelve"}, all |-> {}] >>

\* does the name test of branch b hold for the source name?
BranchMatches(b, name) ==
    IF b.all = {} THEN \E p \in b.any : Contains(p, name)
    ELSE \A p \in b.all : Contains(p, name)

\* a dispatch that takes the last branch whose test holds
DispatchLastMatch(name) ==
    IF \E i \in DOMAIN CustomBranches : BranchMatches(CustomBranches[i], name)
    THEN CustomBranches[CHOOSE i \in DOMAIN CustomBranches :
            /\ BranchMatches(CustomBranches[i], name)
            /\ \A j \in DOMAIN CustomBranches :
                  j > i => ~BranchMatches(CustomBranches[j], name)].adapter
    ELSE "none"

\* the adapter scrape_custom calls for a source name: that of the first
\* branch whose test holds, "none" when the else branch prints
Dispatch(name) ==
    IF \E i \in DOMAIN CustomBranches : BranchMatches(CustomBranches[i], name)
    THEN CustomBranches[CHOOSE i \in DOMAIN CustomBranches :
            /\ BranchMatches(CustomBranches[i], name)
            /\ \A j \in 1..(i - 1) : ~BranchMatches(CustomBranches[j], name)].adapter
    ELSE "none"

\* the adapters that call self.add_event, a method the class does not define
AddEventAdapters ==
    {"scrape_purdue_foundry", "scrape_notre_dame_idea", "scrape_iu_bloomington",
     "scrape_iupui", "scrape_elevate_ventures", "scrape_high_alpha",
     "scrape_startup_grind", "scrape_union_525", "scrape_sbdc",
     "scrape_indy_chamber", "scrape_downtown_indy", "scrape_visit_indy"}

\* add_event as a second name of _add_event
add_event_defined(seen, evs, event_data) ==
    [seen |-> _add_event(seen, evs, event_data).seen,
     events |-> _add_event(seen, evs, event_data).events,
     raised |-> FALSE, offered |-> TRUE]

\* self.add_event(event_data): the attribute lookup raises AttributeError
\* before anything is called; seen set and event list are as they were
add_event(seen, evs, event_data) ==
    [seen |-> seen, events |-> evs, raised |-> TRUE, offered |-> FALSE]

\* what handing event_data over does in the given adapter: the outcome of
\* self.add_event or of self._add_event
HandOver(adapter, seen, evs, event_data) ==
    IF adapter \in AddEventAdapters THEN add_event(seen, evs, event_data)
    ELSE [seen |-> _add_event(seen, evs, event_data).seen,
          events |-> _add_event(seen, evs, event_data).events,
          raised |-> FALSE, offered |-> TRUE]

\* the records an adapter builds from the items of a page
AdapterItems(adapter) ==
    IF adapter = "scrape_purdue_foundry" THEN {RecPurdue}
    ELSE IF adapter = "scrape_notre_dame_idea" THEN {RecNotreDame}
    ELSE IF adapter = "scrape_startup_grind" THEN {RecStartupGrind}
    ELSE IF adapter = "scrape_madjax" THEN {RecMadjax}
    ELSE IF adapter = "scrape_1mc" THEN {Rec1mc}
    ELSE IF adapter = "scrape_fwmoa" THEN {RecFwmoa}
    ELSE {}

\* self.sources with custom sources only
CustomSources ==
    << [name |-> "Purdue Foundry", type |-> "custom"],
       [name |-> "Madjax Muncie", type |-> "custom"],
       [name |-> "Innovation Park at Notre Dame", type |-> "custom"],
       [name |-> "Indiana IoT Lab", type |-> "custom"],
       [name |-> "Startup Grind Indianapolis", type |-> "custom"],
       [name |-> "1 Million Cups Indianapolis", type |-> "custom"] >>

\* scrape_all is at the custom source si
AtCustomSource ==
    /\ pc = "scrape"
    /\ si <= Len(CustomSources)

\* the items handed over so far, with or without success
ItemsHanded ==
    Len(SelectSeq(scraped, LAMBDA e : e.outcome \in {"item_added", "item_raised"}))

\* the state after the adapter of source si handed event_data over with
\* outcome r (a HandOver value); what is raised is swallowed by the handler
\* around the item
CustomItemStep(adapter, event_data, r) ==
    /\ seen_events' = r.seen
    /\ events' = r.events
    /\ admitLog' = IF Len(r.events) > Len(events)
                   THEN Append(admitLog, Identifier(event_data))
                   ELSE admitLog
    /\ offered' = IF r.offered THEN Append(offered, event_data) ELSE offered
    /\ scraped' = Append(scraped,
                      [source |-> si, adapter |-> adapter, item |-> event_data,
                       outcome |-> IF r.raised THEN "item_raised" ELSE "item_added"])
    /\ UNCHANGED <<geocode_cache, pc, ei, clock, extCalls, geoLog, lastResp,
                   filterNow, catalog, hashseed, si>>

\* the adapter scrape_custom dispatched source si to builds a record from
\* an item of the page and hands it over
CustomItem(event_data) ==
    /\ AtCustomSource
    /\ ItemsHanded < MaxOffers
    /\ event_data \in AdapterItems(Dispatch(CustomSources[si].name))
    /\ CustomItemStep(Dispatch(CustomSources[si].name), event_data,
                      HandOver(Dispatch(CustomSources[si].name), seen_events,
                               events, event_data))

\* scrape_custom returns for source si: the adapter is through with the
\* page, or no branch matched
CustomReturns ==
    /\ AtCustomSource
    /\ si' = si + 1
    /\ scraped' = Append(scraped,
                      [source |-> si, adapter |-> Dispatch(CustomSources[si].name),
                       outcome |-> "returned"])
    /\ UNCHANGED <<events, seen_events, geocode_cache, pc, ei, clock, offered,
                   admitLog, extCalls, geoLog, lastResp, filterNow, catalog,
                   hashseed>>

\* the for loop over the custom sources is exhausted, scrape_all returns
CustomDone ==
    /\ si > Len(CustomSources)
    /\ ScrapeAllReturns

\* every record an adapter can build
CustomRecords ==
    UNION {AdapterItems(CustomBranches[b].adapter) : b \in DOMAIN CustomBranches}

NextCustom ==
    \/ \E event_data \in CustomRecords : CustomItem(event_data)
    \/ CustomReturns
    \/ CustomDone
    \/ \E resp \in Responses : EnrichEvent(resp)
    \/ EnrichReturns
    \/ \E now \in FilterNows : FilterPastEvents(now)
    \/ SaveToJson

\* main over custom sources: dispatch, adapters, then the rest of the run
SpecCustom == Init /\ [][NextCustom]_vars

\* the 1 Million Cups sources: the city is read off the URL
RecurringSources ==
    << [name |-> "1 Million Cups Indianapolis", type |-> "custom",
        url |-> "https://www.1millioncups.com/indy"],
       [name |-> "1 Million Cups South Bend", type |-> "custom",
        url |-> "https://www.1millioncups.com/southbend"] >>

\* readings of datetime.now() (line 665), one per run since the loop takes
\* far less than a second: before, on and after the second Wednesday of
\* January 2025 (the 8th), the end of a month, the end of a year
RecurringTodays ==
    {[y |-> 2025, m |-> 1, d |-> 2, s |-> 0],
     [y |-> 2025, m |-> 1, d |-> 8, s |-> 7 * 3600],
     [y |-> 2025, m |-> 1, d |-> 8, s |-> 8 * 3600],
     [y |-> 2025, m |-> 1, d |-> 8, s |-> 9 * 3600],
     [y |-> 2025, m |-> 1, d |-> 20, s |-> 12 * 3600],
     [y |-> 2025, m |-> 1, d |-> 31, s |-> 10 * 3600],
     [y |-> 2024, m |-> 12, d |-> 31, s |-> 23 * 3600]}

\* lines 618-619: scrape_1mc fetches the page of source i; `fetched` tells
\* whether requests.get returned (what it raises is caught at line 657)
RecurringFetch(i, today, fetched) ==
    /\ pc = "scrape"
    /\ scraped = <<>>
    /\ si = 1
    /\ si' = i
    /\ scraped' = <<[source |-> i, today |-> today,
                     outcome |-> IF fetched THEN "fetched" ELSE "fetch_failed"]>>
    /\ UNCHANGED <<events, seen_events, geocode_cache, pc, ei, clock, offered,
                   admitLog, extCalls, geoLog, lastResp, filterNow, catalog,
                   hashseed>>

\* the state after the loop body handed event_data to _add_event, which
\* answered a (an _add_event value)
RecurringStep(event_data, a) ==
    /\ seen_events' = a.seen
    /\ events' = a.events
    /\ admitLog' = IF Len(a.events) > Len(events)
                   THEN Append(admitLog, Identifier(event_data))
                   ELSE admitLog
    /\ offered' = Append(offered, event_data)
    /\ scraped' = Append(scraped,
                      [source |-> si, offset |-> Len(scraped) - 1,
                       item |-> event_data, outcome |-> "item_added"])
    /\ UNCHANGED <<geocode_cache, pc, ei, clock, extCalls, geoLog, lastResp,
                   filterNow, catalog, hashseed, si>>

\* lines 643-655: one iteration of "for i in range(14)"
RecurringOffer ==
    /\ pc = "scrape"
    /\ scraped # <<>>
    /\ scraped[1].outcome = "fetched"
    /\ Len(scraped) - 1 < RecurringMonths
    /\ RecurringStep(RecurringRecord(RecurringSources[si], scraped[1].today,
                                     Len(scraped) - 1),
                     _add_event(seen_events, events,
                                RecurringRecord(RecurringSources[si],
                                                scraped[1].today, Len(scraped) - 1)))

\* scrape_1mc returns, after the loop or after the failed fetch, and
\* scrape_all returns after it
RecurringReturns ==
    /\ scraped # <<>>
    /\ \/ scraped[1].outcome = "fetch_failed"
       \/ Len(scraped) - 1 = RecurringMonths
    /\ ScrapeAllReturns

NextRecurring ==
    \/ \E i \in DOMAIN RecurringSources : \E today \in RecurringTodays :
          \E fetched \in BOOLEAN : RecurringFetch(i, today, fetched)
    \/ RecurringOffer
    \/ RecurringReturns

\* scrape_all over one 1 Million Cups source, for every reading of the clock
SpecRecurring == Init /\ [][NextRecurring]_vars

\* The loop body of enrich_events in its three parts, for the order inside
\* one iteration: pc = "enrich" before the location is resolved, "tag"
\* before features are detected, "backfill" before missing fields are added.

\* the state after location resolution with outcome r (an EnrichOne value)
LocateStep(r, resp) ==
    /\ events' = [events EXCEPT ![ei] =
                     IF r.raised THEN @ ELSE Located(@, r.called, r.geo)]
    /\ GeocodeStep(r, resp)
    /\ pc' = IF r.raised THEN "failed" ELSE "tag"
    /\ ei' = ei

\* lines 2549-2590: location resolution for the event at ei
LocateEvent(resp) ==
    /\ pc = "enrich"
    /\ ei <= Len(events)
    /\ LocateStep(EnrichOne(hashseed, events[ei], geocode_cache, resp), resp)
    /\ UNCHANGED <<seen_events, offered, admitLog, filterNow, catalog, hashseed,
                   si, scraped>>

\* lines 2592-2642: feature detection for the event at ei
TagEvent ==
    /\ pc = "tag"
    /\ events' = [events EXCEPT ![ei] = Tagged(@)]
    /\ pc' = "backfill"
    /\ UNCHANGED <<seen_events, geocode_cache, ei, clock, offered, admitLog,
                   extCalls, geoLog, lastResp, filterNow, catalog, hashseed,
                   si, scraped>>

\* lines 2644-2652: missing fields for the event at ei; the loop goes on
BackfillEvent ==
    /\ pc = "backfill"
    /\ events' = [events EXCEPT ![ei] = Backfill(hashseed, @)]
    /\ pc' = "enrich"
    /\ ei' = ei + 1
    /\ UNCHANGED <<seen_events, geocode_cache, clock, offered, admitLog,
                   extCalls, geoLog, lastResp, filterNow, catalog, hashseed,
                   si, scraped>>

\* records for the whole of main, step by step
StepRecords == {RecMeetup, RecIcal, RecIcalDup, RecLuma, RecFwmoa}

NextSteps ==
    \/ \E event_data \in StepRecords : AddEvent(event_data)
    \/ ScrapeAllReturns
    \/ \E resp \in Responses : LocateEvent(resp)
    \/ TagEvent
    \/ BackfillEvent
    \/ EnrichReturns
    \/ \E now \in FilterNows : FilterPastEvents(now)
    \/ SaveToJson

\* main with the loop body of enrich_events in its three parts
SpecSteps == Init /\ [][NextSteps]_vars

\* the lists of at most n records of S with pairwise distinct keys: what the
\* deduplicator leaves in self.events
DistinctLists(S, n) ==
    {l \in UNION {[1..k -> S] : k \in 0..n} :
        \A i, j \in DOMAIN l : i # j => Identifier(l[i]) # Identifier(l[j])}

\* main after scrape_all returned with the event list evs
InitAfterScrape(evs, at) ==
    /\ events = evs
    /\ seen_events = {Identifier(evs[i]) : i \in DOMAIN evs}
    /\ geocode_cache = EmptyDict
    /\ pc = at
    /\ ei = 1
    /\ clock = 0
    /\ offered = evs
    /\ admitLog = [i \in DOMAIN evs |-> Identifier(evs[i])]
    /\ extCalls = <<>>
    /\ geoLog = <<>>
    /\ lastResp = NoResp
    /\ filterNow = 0
    /\ catalog = <<>>
    /\ hashseed \in HashSeeds
    /\ si = 1
    /\ scraped = <<>>

\* the event lists enrich_events is applied to
EnrichInputs ==
    {Rec1mc, RecMeetup, RecIcal, RecLuma, RecMixer, RecStartupGrind, RecIdentified}

InitEnrich == \E evs \in DistinctLists(EnrichInputs, MaxOffers) : InitAfterScrape(evs, "enrich")

NextEnrich ==
    \/ \E resp \in Responses : EnrichEvent(resp)
    \/ EnrichReturns
    \/ \E now \in FilterNows : FilterPastEvents(now)
    \/ SaveToJson

\* enrich_events applied to a deduplicated event list, then the rest of main
SpecEnrich == InitEnrich /\ [][NextEnrich]_vars

\* a scrape_luma record with the venue name and location text found on the
\* page (lines 408-428)
LumaAt(title, name, address) ==
    [RecLuma EXCEPT !.title = title, !.description = title,
                    !.location = [name |-> name, address |-> address]]

\* venue name and address both found
RecLumaVenue == LumaAt("Launch Party", "The Hub", "5 Oak Ave, Gary")

\* location text of one word: the name is the text
RecLumaOneWord == LumaAt("Office Hours", "Downtown", "Downtown")

\* location text of two words without comma
RecLumaTwoWords == LumaAt("Pitch Practice", "Main Street", "Main Street")

\* location text of three words without comma
RecLumaThreeWords == LumaAt("Founder Coffee", "12 Main St", "12 Main St")

\* location text that starts with a comma and no venue name element: the
\* name is the empty first segment
RecLumaNoName == LumaAt("Investor Panel", "", ", Gary, IN")

\* location text that names the state in capitals
RecLumaIndiana == LumaAt("Hack Night", "Union Hall", "Union Hall, INDIANA")

\* the event lists of the location step: every shape of address
LocateInputs ==
    {RecLumaVenue, RecLumaOneWord, RecLumaTwoWords, RecLumaThreeWords,
     RecLumaNoName, RecLumaIndiana, RecMeetup}

\* answers of the geocoding service in the runs of the location step
LocateResponses == {RespException, RespEmpty, RespOk}

InitLocate == \E evs \in DistinctLists(LocateInputs, MaxOffers) : InitAfterScrape(evs, "enrich")

NextLocate ==
    \/ \E resp \in LocateResponses : EnrichEvent(resp)
    \/ EnrichReturns
    \/ \E now \in FilterNows : FilterPastEvents(now)
    \/ SaveToJson

\* enrich_events applied to event lists with every shape of address
SpecLocate == InitLocate /\ [][NextLocate]_vars

\* a scrape_luma record with the title and description of RecIcal, at a
\* venue, not founder-sourced
RecLumaTwin ==
    [RecLuma EXCEPT !.title = RecIcal.title, !.description = RecIcal.description,
                    !.captainForged = FALSE,
                    !.location = [name |-> "Coffee House",
                                  address |-> "Coffee House, 2 Elm St, Gary"]]

\* the same page scraped from a founder-sourced entry, on another day
RecLumaTwinForged ==
    [RecLumaTwin EXCEPT !.date = "2025-02-08T09:00:00", !.captainForged = TRUE]

\* event lists in which records share title and description
FeatureInputs == {RecIcal, RecLumaTwin, RecLumaTwinForged, RecMixer, RecLumaVenue}

InitFeatures == \E evs \in DistinctLists(FeatureInputs, MaxOffers) : InitAfterScrape(evs, "enrich")

\* enrich_events applied to event lists whose records share their text
SpecFeatures == InitFeatures /\ [][NextLocate]_vars

\* a scrape_madjax record whose title names the city
RecMadjaxMuncie ==
    [RecMadjax EXCEPT !.title = "Muncie Startup Night",
                      !.description = "Muncie Startup Night",
                      !.url = "https://www.madjax.org/night"]

\* scrape_meetup records whose titles name Lafayette and West Lafayette
RecLafayette ==
    [RecMeetup EXCEPT !.title = "Lafayette Startup Coffee",
                      !.url = "https://meetup.example/3"]

RecWestLafayette ==
    [RecMeetup EXCEPT !.title = "West Lafayette Founders Meetup",
                      !.url = "https://meetup.example/4"]

\* event lists for the fallbacks of the location step: adapter coordinates,
\* city names in titles
CentroidInputs == {RecMadjax, RecMadjaxMuncie, RecLafayette, RecWestLafayette, RecMeetup}

InitCentroid == \E evs \in DistinctLists(CentroidInputs, MaxOffers) : InitAfterScrape(evs, "enrich")

\* enrich_events applied to records with adapter coordinates and city titles
SpecCentroid == InitCentroid /\ [][NextLocate]_vars

\* event lists for the temporal filter: every kind of date field
DateInputs ==
    {RecAtCutoff, RecBeforeCutoff, RecFuture, RecAware, RecMeetup, RecPurdue,
     RecEmptyDate, RecUnparseable}

\* readings of datetime.now() for them: the cutoff example, one second
\* later, years later
DateNows == FilterNows \cup {ParseDate("2030-01-01T00:00:00").t}

InitDates == \E evs \in DistinctLists(DateInputs, MaxOffers) : InitAfterScrape(evs, "enrich")

NextDates ==
    \/ \E resp \in Responses : EnrichEvent(resp)
    \/ EnrichReturns
    \/ \E now \in DateNows : FilterPastEvents(now)
    \/ SaveToJson

SpecDates == InitDates /\ [][NextDates]_vars

-----------------------------------------------------------------------------
\* Properties of the Deduplicator

\* the title and the date of a record, an absent field read as ""
TitleDate(r) == <<Get(r, "title", ""), Get(r, "date", "")>>

\* the records of a sequence that are the first with their title and date
RECURSIVE FirstOccurrences(_, _)
FirstOccurrences(recs, before) ==
    IF recs = <<>> THEN <<>>
    ELSE IF TitleDate(Head(recs)) \in before
    THEN FirstOccurrences(Tail(recs), before)
    ELSE <<Head(recs)>>
           \o FirstOccurrences(Tail(recs), before \cup {TitleDate(Head(recs))})

\* the last record offered
LastOffered == offered'[Len(offered')]

\* C1: one call of _add_event either adds the record's key to the seen set
\* and appends the record to the end of the event list (key not seen before),
\* or leaves the seen set and the event list exactly as they were (key seen
\* before); it changes nothing else of the scraper.
C1_AddEventFrame ==
    [][offered' # offered =>
         /\ IF Identifier(LastOffered) \in seen_events
            THEN seen_events' = seen_events /\ events' = events
            ELSE /\ seen_events' = seen_events \cup {Identifier(LastOffered)}
                 /\ events' = Append(events, LastOffered)
         /\ UNCHANGED <<geocode_cache, catalog, pc>>]_vars

\* a record offered a second time under another description was discarded
C1_Witness ==
    /\ pc = "scrape"
    /\ offered = <<RecIcal, RecIcalDup>>
    /\ events = <<RecIcal>>
    /\ seen_events = {Identifier(RecIcal)}

\* C2: the seen set keeps every key ever admitted, a key is admitted at most
\* once in a run, and no two records of the event list have the same key.
C2_SeenWriteOnce ==
    /\ \A i \in DOMAIN admitLog : admitLog[i] \in seen_events
    /\ \A i, j \in DOMAIN admitLog : i # j => admitLog[i] # admitLog[j]
    /\ \A i, j \in DOMAIN events :
          i # j => Identifier(events[i]) # Identifier(events[j])

\* a run that ended after a key was offered twice and admitted once
C2_Witness ==
    /\ pc = "done"
    /\ Len(offered) = 2
    /\ Identifier(offered[1]) = Identifier(offered[2])
    /\ Len(admitLog) = 1
    /\ admitLog[1] \in seen_events

\* the events of the catalog with the title and date of record r
CatalogCount(r) ==
    Cardinality({k \in DOMAIN catalog : TitleDate(catalog[k]) = TitleDate(r)})

\* C3 as stated: a record offered twice in a run yields exactly one event
\* with its title and date in the catalog.
C3_ExactlyOneInCatalog ==
    pc = "done" =>
        \A i, j \in DOMAIN offered :
            (i < j /\ offered[i] = offered[j]) => CatalogCount(offered[i]) = 1

\* C3: a record offered twice in a run yields exactly one event with its
\* title and date in the catalog when the temporal filter keeps the record,
\* and none when the filter drops it; never two.
C3_DedupIdempotent ==
    pc = "done" =>
        \A i, j \in DOMAIN offered :
            (i < j /\ offered[i] = offered[j]) =>
                CatalogCount(offered[i])
                    = IF KeepsEvent(offered[i], filterNow) THEN 1 ELSE 0

\* the same record offered twice, kept by the filter, once in the catalog
C3_Witness ==
    /\ pc = "done"
    /\ offered = <<RecLuma, RecLuma>>
    /\ Len(catalog) = 1
    /\ TitleDate(catalog[1]) = TitleDate(RecLuma)

\* C4: two records have the same key exactly when their titles are equal and
\* their dates are equal, an absent field counting as the empty string; so
\* the records admitted are those that are the first with their title and
\* date.
C4_KeyIsTitleAndDate ==
    /\ \A i, j \in DOMAIN offered :
          Identifier(offered[i]) = Identifier(offered[j])
              <=> TitleDate(offered[i]) = TitleDate(offered[j])
    /\ Len(events) = Cardinality({TitleDate(offered[i]) : i \in DOMAIN offered})

\* the same title on two dates: both records kept
C4_Witness ==
    /\ Len(offered) = 2
    /\ Len(events) = 2
    /\ Get(offered[1], "title", "") = Get(offered[2], "title", "")
    /\ Get(offered[1], "date", "") # Get(offered[2], "date", "")

\* C5: of the records sharing a key the event list holds the first one
\* offered, and the event list is in the order the records were first
\* offered.
C5_FirstSeenWins ==
    (pc = "scrape" \/ (pc = "enrich" /\ ei = 1)) =>
        events = FirstOccurrences(offered, {})

\* the later record of the same key, with another description, was dropped
C5_Witness ==
    /\ pc = "enrich"
    /\ ei = 1
    /\ Len(offered) = 2
    /\ offered[1] # offered[2]
    /\ Identifier(offered[1]) = Identifier(offered[2])
    /\ events = <<offered[1]>>

-----------------------------------------------------------------------------
\* Properties of the LocationResolver

\* C6: once an address has resolved, every later resolution of an address
\* with the same normalized form returns the same coordinates from the
\* cache, without sleeping and without a request to the service.
C6_CacheNeverRegresses ==
    \A i, j \in DOMAIN geoLog :
        (/\ i < j
         /\ CacheKey(geoLog[i].address) = CacheKey(geoLog[j].address)
         /\ geoLog[i].result # None) =>
            /\ geoLog[j].cached
            /\ geoLog[j].effects = <<>>
            /\ geoLog[j].result = geoLog[i].result

\* an address resolved, then the same address in another letter case was
\* answered from the cache at the same clock reading
C6_Witness ==
    /\ Len(geoLog) = 2
    /\ geoLog[1].address # geoLog[2].address
    /\ CacheKey(geoLog[1].address) = CacheKey(geoLog[2].address)
    /\ geoLog[1].result # None
    /\ geoLog[2].cached
    /\ Len(extCalls) = 1
    /\ clock = SleepTenths

\* C7 as stated: in one run the service is asked at most once for one
\* address, however many records share it.
C7_OneCallPerAddress ==
    \A i, j \in DOMAIN extCalls :
        i # j => extCalls[i].address # extCalls[j].address

\* C7: in one run the service resolves one address at most once, and is not
\* asked again for it afterwards, however many records share the address:
\* the later resolutions return the cached coordinates. (A request that
\* fails stores nothing, so the next record with the address asks again.)
C7_OneSuccessPerAddress ==
    /\ \A i, j \in DOMAIN extCalls :
          (i < j /\ extCalls[i].key = extCalls[j].key) => ~extCalls[i].ok
    /\ \A i, j \in DOMAIN geoLog :
          (/\ i < j
           /\ geoLog[i].address = geoLog[j].address
           /\ geoLog[i].result # None) =>
              /\ geoLog[j].result # None
              /\ geoLog[j].result.lat = geoLog[i].result.lat
              /\ geoLog[j].result.lng = geoLog[i].result.lng

\* two records with one address: one request, the second answered from the
\* cache
C7_Witness ==
    /\ Len(geoLog) = 2
    /\ geoLog[1].address = geoLog[2].address
    /\ geoLog[1].event # geoLog[2].event
    /\ Len(extCalls) = 1
    /\ extCalls[1].ok
    /\ geoLog[2].result = geoLog[1].result

\* C8: every request is preceded, in the same geocode_address call, by a
\* sleep of at least 1.1 seconds, the sleep is taken once per request, two
\* consecutive requests are at least 1.1 seconds apart, and records are
\* resolved one at a time in list order.
C8_RateLimit ==
    /\ \A k \in DOMAIN extCalls : extCalls[k].slept >= SleepTenths
    /\ \A k \in DOMAIN extCalls :
          k > 1 => extCalls[k].at - extCalls[k - 1].at >= SleepTenths
    /\ \A k \in DOMAIN geoLog : \A q \in DOMAIN geoLog[k].effects :
          geoLog[k].effects[q].op = "get" =>
              /\ q > 1
              /\ geoLog[k].effects[q - 1].op = "sleep"
              /\ geoLog[k].effects[q - 1].tenths >= SleepTenths
    /\ clock = SleepTenths * Len(extCalls)
    /\ \A k \in DOMAIN geoLog : k > 1 => geoLog[k - 1].event < geoLog[k].event

\* two requests in one run, the second 1.1 seconds after the first
C8_Witness ==
    /\ Len(extCalls) = 2
    /\ extCalls[2].at - extCalls[1].at = SleepTenths
    /\ extCalls[1].slept = SleepTenths

-----------------------------------------------------------------------------
\* Properties of the EnrichmentPipeline

\* the response made this lookup of address fail
FailedLookup(address, resp) ==
    /\ resp \in Responses
    /\ ~IsSuccess(address, resp)

\* the event has a location and a features record
IsEnriched(event) ==
    /\ "location" \in DOMAIN event
    /\ event.location # None
    /\ "features" \in DOMAIN event

\* C9: a lookup that fails (status other than 200, empty result list, error
\* in the request or in reading the response) does not end enrichment: it
\* returns None, leaves the cache as it was, the record gets its location
\* from the city table or the default, the loop goes on to the next record,
\* and every record is enriched when the loop ends.
C9_GeocodeFailureContained ==
    /\ [](pc # "failed")
    /\ [](pc = "filter" => \A k \in DOMAIN events : IsEnriched(events[k]))
    /\ [][(pc = "enrich" /\ ei' # ei
              /\ FailedLookup(events[ei].location.address, lastResp')) =>
            /\ geoLog'[Len(geoLog')].result = None
            /\ geocode_cache' = geocode_cache
            /\ events'[ei].location = FallbackLocation(events[ei])
            /\ IsEnriched(events'[ei])
            /\ pc' = "enrich"
            /\ ei' = ei + 1]_vars

\* the request for the first record raised, the second record was enriched
\* after it
C9_Witness ==
    /\ pc = "filter"
    /\ Len(events) = 2
    /\ Len(geoLog) >= 1
    /\ geoLog[1].event = 1
    /\ geoLog[1].result = None
    /\ events[1].location = FallbackLocation(offered[1])
    /\ IsEnriched(events[2])

\* the keys of a features record
FeatureKeys ==
    {"free", "food", "appetizers", "nonAlcoholDrinks", "alcoholDrinks",
     "captainForged"}

\* a complete location and a complete features record
HasLocationAndFeatures(event) ==
    /\ IsEnriched(event)
    /\ {"name", "address", "lat", "lng"} \subseteq DOMAIN event.location
    /\ event.location.name \in STRING
    /\ event.location.address \in STRING
    /\ event.location.lat \in Int
    /\ event.location.lng \in Int
    /\ DOMAIN event.features = FeatureKeys
    /\ \A f \in FeatureKeys : event.features[f] \in BOOLEAN

\* C10: after enrich_events every event has a location with name, address,
\* lat and lng, and a features record with the six boolean flags; so has
\* every event of the catalog.
C10_LocationAndFeatures ==
    /\ pc = "enrich" => \A k \in 1..(ei - 1) : HasLocationAndFeatures(events[k])
    /\ pc \in {"filter", "save", "done"} =>
          \A k \in DOMAIN events : HasLocationAndFeatures(events[k])
    /\ \A k \in DOMAIN catalog : HasLocationAndFeatures(catalog[k])

\* a catalog with a record that came without location and got the default,
\* and a record whose address was resolved
C10_Witness ==
    /\ pc = "done"
    /\ Len(catalog) = 2
    /\ offered[1] = RecIcal
    /\ catalog[1].location = DefaultLocation
    /\ Len(extCalls) = 1
    /\ extCalls[1].ok
    /\ catalog[2].location.lat # DefaultLocation.lat

-----------------------------------------------------------------------------
\* Properties of the location fallbacks

\* the record has no location address
NoAddress(r) ==
    \/ "location" \notin DOMAIN r
    \/ "address" \notin DOMAIN r.location

\* the positions of the event list that have been enriched (positions are
\* those of `offered` until the filter runs)
EnrichedPositions ==
    IF pc = "enrich" THEN 1..(ei - 1)
    ELSE IF pc = "filter" THEN DOMAIN events
    ELSE {}

\* no call of geocode_address was made for position k
NoLookupFor(k) == \A g \in DOMAIN geoLog : geoLog[g].event # k

\* the table entry c is the first whose name occurs in the lower-cased title
IsFirstMatch(c, r) ==
    /\ Contains(indiana_cities[c].city, Lower(Get(r, "title", "")))
    /\ \A b \in 1..(c - 1) :
          ~Contains(indiana_cities[b].city, Lower(Get(r, "title", "")))

C12_DefaultFallback ==
    \A k \in EnrichedPositions :
        (/\ NoAddress(offered[k])
         /\ \A c \in DOMAIN indiana_cities :
               ~Contains(indiana_cities[c].city, Lower(Get(offered[k], "title", "")))) =>
            /\ events[k].location =
                  [name |-> "Indianapolis", address |-> "Indianapolis, IN",
                   lat |-> 397684, lng |-> -861581]
            /\ NoLookupFor(k)

\* a record without location and without city in its title was enriched
C12_Witness ==
    /\ pc = "filter"
    /\ offered = <<RecIcal, RecMixer>>
    /\ events[1].location.address = "Indianapolis, IN"
    /\ events[2].location.address = "Indianapolis, IN"
    /\ geoLog = <<>>

-----------------------------------------------------------------------------
\* Properties of the TemporalFilter

\* the filter has run
Filtered == pc \in {"save", "done"}

\* the event list holds the record with r's title and date
Survives(r) == \E k \in DOMAIN events : TitleDate(events[k]) = TitleDate(r)

\* the record has a date that is to be parsed
HasDateToParse(r) == Get(r, "date", "") \notin {"", "TBD"}

SevenDays == 7 * 24 * 3600

\* C13 as stated: with cutoff = reference time - 7 days, a record whose date
\* parses is kept exactly when the parsed date is at or after the cutoff.
C13_KeptIffNotBeforeCutoff ==
    Filtered =>
        \A k \in DOMAIN offered :
            (HasDateToParse(offered[k]) /\ ParseDate(offered[k].date).ok) =>
                (Survives(offered[k])
                    <=> ParseDate(offered[k].date).t >= filterNow - SevenDays)

\* C13: with cutoff = reference time - 7 days, a record whose date parses to
\* a date/time without UTC offset is kept exactly when the parsed date is at
\* or after the cutoff, and a record whose date parses to a date/time with
\* UTC offset is kept whatever its age; with reference time
\* 2025-01-08T00:00:00 the record dated 2025-01-01T00:00:00 is kept and the
\* record dated 2024-12-31T23:59:59 is dropped.
C13_CutoffBoundary ==
    Filtered =>
        /\ \A k \in DOMAIN offered :
              (HasDateToParse(offered[k]) /\ ParseDate(offered[k].date).ok) =>
                  IF ParseDate(offered[k].date).aware
                  THEN Survives(offered[k])
                  ELSE Survives(offered[k])
                          <=> ParseDate(offered[k].date).t >= filterNow - SevenDays
        /\ filterNow = ParseDate("2025-01-08T00:00:00").t =>
              \A k \in DOMAIN offered :
                  /\ offered[k].title = "Tech Talk" /\ offered[k].date = "2025-01-01T00:00:00"
                        => Survives(offered[k])
                  /\ offered[k].title = "Tech Talk" /\ offered[k].date = "2024-12-31T23:59:59"
                        => ~Survives(offered[k])

\* reference time 2025-01-08T00:00:00: the record at the cutoff is in the
\* catalog, the record one second before it is not
C13_Witness ==
    /\ pc = "done"
    /\ filterNow = ParseDate("2025-01-08T00:00:00").t
    /\ offered = <<RecBeforeCutoff, RecAtCutoff>>
    /\ Len(catalog) = 1
    /\ catalog[1].date = "2025-01-01T00:00:00"

\* C14: a record whose date is absent, empty, "TBD" or not parseable is kept
\* by the filter, whatever the reference time.
C14_FailOpen ==
    Filtered =>
        \A k \in DOMAIN offered :
            (\/ "date" \notin DOMAIN offered[k]
             \/ offered[k].date \in {"", "TBD", "Coming soon"}
             \/ ~ParseDate(offered[k].date).ok) => Survives(offered[k])

\* years after the scrape, the "TBD" and the undatable record are in the
\* catalog
C14_Witness ==
    /\ pc = "done"
    /\ filterNow = ParseDate("2030-01-01T00:00:00").t
    /\ offered = <<RecPurdue, RecUnparseable>>
    /\ Len(catalog) = 2
    /\ catalog[1].date = "TBD"
    /\ catalog[2].date = "Coming soon"

-----------------------------------------------------------------------------
\* Properties of the FeatureExtractor

\* the lower-cased title and description of a record, as feature detection
\* joins them
TitleAndDescription(r) ==
    Lower(Get(r, "title", "")) \o " " \o Lower(Get(r, "description", ""))

\* some keyword of the list occurs in the text
Mentions(text, keywords) ==
    \E i \in DOMAIN keywords : Contains(keywords[i], text)

\* the reference rule set holds between a text, a flag and a feature set
FollowsRuleSet(text, flag, f) ==
    /\ f.free = Mentions(text, free_keywords)
    /\ f.food = (Mentions(text, food_keywords) \/ Mentions(text, food_event_types))
    /\ f.appetizers
          = (Mentions(text, appetizer_keywords) \/ Mentions(text, networking_keywords))
    /\ f.nonAlcoholDrinks
          = (Mentions(text, nonalc_keywords) \/ Mentions(text, coffee_events))
    /\ f.alcoholDrinks = Mentions(text, alc_keywords)
    /\ f.captainForged = flag

-----------------------------------------------------------------------------
\* Properties of scrape_all

\* what became of the source visited last
LastScraped == scraped'[Len(scraped')]

\* C16: when the extraction of a source raises, the records accepted so far
\* stay in the event list and the seen set, scrape_all goes on with the next
\* source, every enabled source has been scraped when scrape_all returns,
\* and it returns normally.
C16_AdapterFailureIsolated ==
    /\ [](pc # "failed")
    /\ [](pc = "enrich" =>
            /\ Len(scraped) = Len(Sources)
            /\ \A k \in DOMAIN Sources :
                  /\ scraped[k].source = k
                  /\ Get(Sources[k], "enabled", TRUE)
                        => scraped[k].outcome \in {"returned", "raised"})
    /\ [][(scraped' # scraped /\ LastScraped.outcome = "raised") =>
            /\ events' = events
            /\ seen_events' = seen_events
            /\ pc' = "scrape"
            /\ si' = si + 1]_vars

\* the first source raised after one of its records was accepted; the record
\* is still there, and a later source added its own
C16_Witness ==
    /\ pc = "enrich"
    /\ Len(scraped) = 4
    /\ scraped[1].outcome = "raised"
    /\ scraped[4].outcome = "returned"
    /\ events = <<RecMeetup, Rec1mc>>
    /\ seen_events = {Identifier(RecMeetup), Identifier(Rec1mc)}

-----------------------------------------------------------------------------
\* Properties of the identifier

\* title + date, the text the identifier is the hash of
TitleDateText(r) == Get(r, "title", "") \o Get(r, "date", "")

\* C17 as stated: the identifier of a catalog event is the one every run of
\* the pipeline assigns to its title and date, whatever the process the run
\* is made in; and in one run records with equal title + date text get the
\* same identifier.
C17_StableIdentifier ==
    /\ \A k \in DOMAIN catalog : \A seed \in HashSeeds :
          catalog[k].id = EventId(seed, catalog[k])
    /\ \A j, k \in DOMAIN catalog :
          TitleDateText(catalog[j]) = TitleDateText(catalog[k])
              => catalog[j].id = catalog[k].id

\* C17, the part that holds: in one run the identifier is a function of the
\* title + date text and the seed the process hashes strings with, so
\* records with equal title + date text get the same identifier.
C17_IdentifierWithinRun ==
    /\ \A k \in DOMAIN catalog : catalog[k].id = EventId(hashseed, catalog[k])
    /\ \A j, k \in DOMAIN catalog :
          TitleDateText(catalog[j]) = TitleDateText(catalog[k])
              => catalog[j].id = catalog[k].id

\* a run whose catalog holds an identifier that the run with the other hash
\* seed does not assign to the same title and date
C17_Witness ==
    /\ pc = "done"
    /\ hashseed = 1
    /\ Len(catalog) = 2
    /\ catalog[1].id = EventId(1, offered[1])
    /\ catalog[1].id # EventId(0, offered[1])

-----------------------------------------------------------------------------
\* Properties of the backfill

\* the fields enrichment may add to a record
EnrichedFields == {"location", "features", "organizer", "description", "id"}

\* C18: enrichment gives a record without organizer its source name as
\* organizer and a record without description the text "Entrepreneur event: "
\* followed by its title; an organizer, a description or an id the record
\* came with is kept, and so is every other field but the location.
C18_BackfillOnlyMissing ==
    \A k \in EnrichedPositions :
        /\ events[k].organizer =
              IF "organizer" \in DOMAIN offered[k] THEN offered[k].organizer
              ELSE offered[k].source
        /\ events[k].description =
              IF "description" \in DOMAIN offered[k] THEN offered[k].description
              ELSE "Entrepreneur event: " \o offered[k].title
        /\ "id" \in DOMAIN offered[k] => events[k].id = offered[k].id
        /\ DOMAIN events[k] = DOMAIN offered[k] \cup EnrichedFields
        /\ \A f \in DOMAIN offered[k] \ {"location"} : events[k][f] = offered[k][f]

\* a record with organizer and without description, and a record with
\* description and id and without organizer, both enriched
C18_Witness ==
    /\ pc = "filter"
    /\ offered = <<RecStartupGrind, RecIdentified>>
    /\ events[1].organizer = "Startup Grind Indianapolis"
    /\ events[1].description = "Entrepreneur event: Fireside Chat"
    /\ events[2].organizer = "Calendar A"
    /\ events[2].description = "Breakfast for founders"
    /\ events[2].id = "evt-42"

-----------------------------------------------------------------------------
\* Properties of the order of the pipeline

\* the accepted records in the order they were ingested
Ingested == FirstOccurrences(offered, {})

\* s is t with some elements left out: same elements, same order
RECURSIVE IsSubSeq(_, _)
IsSubSeq(s, t) ==
    IF s = <<>> THEN TRUE
    ELSE IF t = <<>> THEN FALSE
    ELSE IF Head(s) = Head(t) THEN IsSubSeq(Tail(s), Tail(t))
    ELSE IsSubSeq(s, Tail(t))

\* the title and date of each record of a list
Keys(evs) == [k \in DOMAIN evs |-> TitleDate(evs[k])]

\* the location of the event has coordinates
HasCoordinates(event) ==
    /\ "location" \in DOMAIN event
    /\ event.location # None
    /\ {"lat", "lng"} \subseteq DOMAIN event.location

\* the loop of enrich_events is running
Enriching == pc \in {"enrich", "tag", "backfill"}

\* C19: records are ingested only before enrichment starts; in the loop the
\* location of a record is resolved before its features are detected; when
\* the filter runs every ingested record has location and features; the
\* filter runs once, and leaves the events it keeps as they were and in the
\* order they had; the catalog written is that list, so its records follow
\* the order of ingestion.
C19_PipelineOrdering ==
    /\ [](pc = "scrape" => \A k \in DOMAIN events : "features" \notin DOMAIN events[k])
    /\ [][pc # "scrape" => offered' = offered]_vars
    /\ [](Enriching => /\ Keys(events) = Keys(Ingested)
                       /\ \A k \in DOMAIN events :
                             k < ei => HasLocationAndFeatures(events[k]))
    /\ [](pc = "tag" => /\ HasCoordinates(events[ei])
                        /\ "features" \notin DOMAIN events[ei])
    /\ [](pc = "backfill" => /\ HasCoordinates(events[ei])
                             /\ "features" \in DOMAIN events[ei])
    /\ [](Enriching => \A k \in DOMAIN events :
                          k > ei => "features" \notin DOMAIN events[k])
    /\ [](pc = "filter" => /\ Keys(events) = Keys(Ingested)
                           /\ \A k \in DOMAIN events : HasLocationAndFeatures(events[k]))
    /\ [][filterNow' # filterNow =>
            (pc = "filter" /\ pc' = "save" /\ filterNow = 0 /\ IsSubSeq(events', events))]_vars
    /\ [][(pc = "save" \/ pc = "done") =>
            (pc' \in {"save", "done"} /\ events' = events /\ filterNow' = filterNow)]_vars
    /\ [](pc = "done" => /\ catalog = events
                         /\ IsSubSeq(Keys(catalog), Keys(Ingested)))

\* a run that ingested two records, enriched both, dropped the first in the
\* filter and wrote the second
C19_Witness ==
    /\ pc = "done"
    /\ Len(Ingested) = 2
    /\ Len(catalog) = 1
    /\ TitleDate(catalog[1]) = TitleDate(Ingested[2])
    /\ HasLocationAndFeatures(catalog[1])

\* the description the catalog event of a record ends up with
FinalDescription(event) == WithDescription(event).description

\* C20 as stated: when the features of a record are extracted, its
\* description is already the one the catalog event ends up with, the
\* default included.
C20_FeaturesFromFinalDescription ==
    pc = "tag" =>
        /\ "description" \in DOMAIN events[ei]
        /\ events[ei].description = FinalDescription(Ingested[ei])

\* C20, amended: the features of a record are extracted after its location
\* is resolved, from the title and the description the record came with (no
\* text when it came without one); the default description is added after
\* that, and the features are those the rule set gives for the title and the
\* description the event ends up with.
C20_FeaturesBeforeBackfill ==
    /\ pc = "tag" =>
          /\ HasCoordinates(events[ei])
          /\ "features" \notin DOMAIN events[ei]
          /\ "description" \in DOMAIN events[ei] <=> "description" \in DOMAIN Ingested[ei]
          /\ Get(events[ei], "description", "") = Get(Ingested[ei], "description", "")
    /\ pc = "backfill" =>
          /\ "description" \in DOMAIN events[ei] <=> "description" \in DOMAIN Ingested[ei]
          /\ FollowsRuleSet(TitleAndDescription(Ingested[ei]),
                            Get(Ingested[ei], "captainForged", FALSE),
                            events[ei].features)
    /\ pc \in {"enrich", "filter"} =>
          \A k \in DOMAIN events :
              (k < ei \/ pc = "filter") =>
                  /\ events[k].description = FinalDescription(Ingested[k])
                  /\ FollowsRuleSet(TitleAndDescription(events[k]),
                                    Get(events[k], "captainForged", FALSE),
                                    events[k].features)

\* the features of a record that came without description have been
\* extracted, and the record has no description yet
C20_Witness ==
    /\ pc = "backfill"
    /\ "description" \notin DOMAIN Ingested[ei]
    /\ "description" \notin DOMAIN events[ei]
    /\ "features" \in DOMAIN events[ei]
    /\ HasCoordinates(events[ei])

-----------------------------------------------------------------------------
\* Properties of the geocoding step of location resolution

\* the calls of geocode_address made for position k
LookupsFor(k) == {g \in DOMAIN geoLog : geoLog[g].event = k}

\* the number of whitespace-separated words of s
RECURSIVE Words(_, _)
Words(s, inWord) ==
    IF s = "" THEN 0
    ELSE IF IsSpace(Char(s, 1)) THEN Words(SubSeq(s, 2, Len(s)), FALSE)
    ELSE (IF inWord THEN 0 ELSE 1) + Words(SubSeq(s, 2, Len(s)), TRUE)

\* the record has a non-empty address with a comma or at least three words
LooksComplete(r) ==
    /\ ~NoAddress(r)
    /\ r.location.address # ""
    /\ \/ \E i \in 1..Len(r.location.address) : Char(r.location.address, i) = ","
       \/ Words(r.location.address, FALSE) >= 3

\* the text of s before its first comma (all of s when it has none)
RECURSIVE BeforeComma(_)
BeforeComma(s) ==
    IF s = "" \/ Char(s, 1) = "," THEN ""
    ELSE Char(s, 1) \o BeforeComma(SubSeq(s, 2, Len(s)))

\* the display name of a geocoded location
DisplayName(loc) == IF loc.name # "" THEN loc.name ELSE BeforeComma(loc.address)

\* a successful answer of geocode_address
GeoFound == [result |-> [lat |-> 415934, lng |-> -873464, address |-> "x"]]

\* C21: geocode_address is called for a record exactly when the record has a
\* non-empty address with a comma or at least three words; for any other
\* record there is no cache lookup, no sleep and no request.  When the call
\* returns a result the location of the record is the venue name (the text
\* before the first comma of the address when the name is empty), the
\* address, and the latitude and longitude of the result.
C21_GeocodeAttempt ==
    /\ \A k \in EnrichedPositions :
          /\ (LookupsFor(k) # {}) = LooksComplete(offered[k])
          /\ Cardinality(LookupsFor(k)) <= 1
          /\ \A g \in LookupsFor(k) :
                geoLog[g].result # None =>
                    events[k].location =
                        [name |-> DisplayName(offered[k].location),
                         address |-> offered[k].location.address,
                         lat |-> geoLog[g].result.lat,
                         lng |-> geoLog[g].result.lng]
    /\ \A c \in DOMAIN extCalls :
          \E g \in DOMAIN geoLog :
              /\ geoLog[g].address = extCalls[c].address
              /\ LooksComplete(offered[geoLog[g].event])
    /\ Located(LumaAt("Lunch", "", "Oak Hall, 5 Oak Ave, Gary"), TRUE, GeoFound).location.name
          = "Oak Hall"

\* a record with venue name and address was geocoded with success, a record
\* whose address has two words and no comma was not looked up
C21_Witness ==
    /\ pc = "filter"
    /\ offered = <<RecLumaVenue, RecLumaTwoWords>>
    /\ Len(geoLog) = 1
    /\ Len(extCalls) = 1
    /\ events[1].location.name = "The Hub"
    /\ events[1].location.lat = 415934
    /\ events[2].location.name = "Indianapolis"

\* the address names the state: "indiana" or ", in" in any letter case
SignalsState(address) ==
    \/ \E i \in 1..(Len(address) - 6) : Lower(SubSeq(address, i, i + 6)) = "indiana"
    \/ \E i \in 1..(Len(address) - 3) : Lower(SubSeq(address, i, i + 3)) = ", in"

\* C22: every request to the geocoding service (made on a cache miss only)
\* asks for the address followed by ", Indiana", or for the address as it
\* is when the address contains "indiana" or ", in" in any letter case.
C22_SearchQuery ==
    /\ \A c \in DOMAIN extCalls :
          extCalls[c].query =
              IF SignalsState(extCalls[c].address) THEN extCalls[c].address
              ELSE extCalls[c].address \o ", Indiana"
    /\ \A g \in DOMAIN geoLog :
          /\ geoLog[g].cached => geoLog[g].effects = <<>>
          /\ ~geoLog[g].cached =>
                \E i \in DOMAIN geoLog[g].effects :
                    /\ geoLog[g].effects[i].op = "get"
                    /\ geoLog[g].effects[i].query \in
                          {geoLog[g].address, geoLog[g].address \o ", Indiana"}

\* one request with ", Indiana" appended and one for an address that names
\* the state in capitals
C22_Witness ==
    /\ Len(extCalls) = 2
    /\ extCalls[1].query = "5 Oak Ave, Gary, Indiana"
    /\ extCalls[2].query = "Union Hall, INDIANA"

-----------------------------------------------------------------------------
\* Properties of feature extraction

\* what feature extraction may depend on: title, description and the
\* founder-sourced flag of the record
TextAndFlag(r) ==
    [title |-> Get(r, "title", ""), description |-> Get(r, "description", ""),
     captainForged |-> Get(r, "captainForged", FALSE)]

\* C23: the feature set of an enriched record is a function of its title,
\* description and founder-sourced flag alone: it is what the rules give for
\* a record with only these three fields, and two records of a run that
\* agree on the three have equal feature sets, whatever their positions,
\* their locations and the answers of the geocoding service.
C23_FeaturesDeterministic ==
    /\ \A k \in EnrichedPositions :
          events[k].features = Features(TextAndFlag(offered[k]))
    /\ \A j, k \in EnrichedPositions :
          TextAndFlag(offered[j]) = TextAndFlag(offered[k])
              => events[j].features = events[k].features

\* two records with the same text and flag, one without location and one
\* geocoded at a venue, carry the same features
C23_Witness ==
    /\ pc = "filter"
    /\ offered = <<RecLumaTwin, RecIcal>>
    /\ events[1].location.name = "Coffee House"
    /\ events[2].location.name = "Indianapolis"
    /\ DOMAIN geocode_cache # {}
    /\ events[1].features = events[2].features
    /\ events[1].features.free

-----------------------------------------------------------------------------
\* Properties of the filter's catch-all handler

\* the date of the record parses to a date/time with UTC offset
HasAwareDate(r) ==
    /\ HasDateToParse(r)
    /\ ParseDate(r.date).ok
    /\ Len(r.date) >= 6
    /\ \/ Char(r.date, Len(r.date)) = "Z"
       \/ Char(r.date, Len(r.date) - 5) \in {"+", "-"} /\ Char(r.date, Len(r.date) - 2) = ":"

-----------------------------------------------------------------------------
\* Properties of the adapters of scrape_custom

\* the entry the step appends to the log of scrape_all
LastLogged == scraped'[Len(scraped')]

\* the items handed over by adapters that call add_event
HandedToAddEvent ==
    {g \in DOMAIN scraped :
        /\ scraped[g].outcome \in {"item_added", "item_raised"}
        /\ scraped[g].adapter \in AddEventAdapters}

\* C25: when one of the twelve adapters that call add_event hands a record
\* over, the call raises, the handler around the item swallows it, and the
\* event list, the seen set and the records offered to the deduplicator
\* stay as they were; scrape_all goes on.  No record of these adapters is
\* in the event list, the seen set or the catalog.
C25_AddEventAdaptersAddNothing ==
    /\ [][(Len(scraped') > Len(scraped)
            /\ LastLogged.outcome \in {"item_added", "item_raised"}
            /\ LastLogged.adapter \in AddEventAdapters) =>
            (/\ LastLogged.outcome = "item_raised"
             /\ events' = events
             /\ seen_events' = seen_events
             /\ offered' = offered
             /\ pc' = "scrape"
             /\ si' = si)]_vars
    /\ [](\A g \in HandedToAddEvent :
            /\ Identifier(scraped[g].item) \notin seen_events
            /\ \A k \in DOMAIN events : TitleDate(events[k]) # TitleDate(scraped[g].item)
            /\ \A k \in DOMAIN catalog : TitleDate(catalog[k]) # TitleDate(scraped[g].item))
    /\ [](pc # "failed")

\* the Purdue Foundry adapter handed a record over, the Madjax adapter
\* another; the catalog holds the Madjax record only
C25_Witness ==
    /\ pc = "done"
    /\ \E g \in HandedToAddEvent :
          scraped[g].item = RecPurdue /\ scraped[g].outcome = "item_raised"
    /\ \E g \in DOMAIN scraped :
          scraped[g].outcome = "item_added" /\ scraped[g].item = RecMadjax
    /\ Len(catalog) = 1
    /\ catalog[1].title = RecMadjax.title
    /\ seen_events = {Identifier(RecMadjax)}

\* source names the dispatch is asked about, beside those of the sources
DispatchNames ==
    {CustomSources[k].name : k \in DOMAIN CustomSources}
        \cup {"Notre Dame Innovation Park", "Innovation Park", "Notre Dame IDEA Center",
              "IDEA Center", "Indiana IoT", "IoT Lab Fishers", "Crane Defense Hub",
              "NIIC Notre Dame", ""}

\* the names of the adapters scrape_custom calls in its branches
BranchAdapters == {CustomBranches[b].adapter : b \in DOMAIN CustomBranches}

\* C29: scrape_custom calls the adapter of the first branch, in source
\* order, whose name test holds.  The branch of scrape_innovation_park_nd
\* asks for "Notre Dame" in the name, which an earlier branch (that of
\* scrape_notre_dame_idea) accepts by itself, so scrape_custom calls
\* scrape_innovation_park_nd for no source name; no branch calls
\* scrape_indiana_iot.
C29_FirstBranchWins ==
    /\ \A g \in DOMAIN scraped :
          /\ scraped[g].adapter \notin {"scrape_innovation_park_nd", "scrape_indiana_iot"}
          /\ \A b \in DOMAIN CustomBranches :
                (/\ BranchMatches(CustomBranches[b], CustomSources[scraped[g].source].name)
                 /\ \A e \in 1..(b - 1) :
                       ~BranchMatches(CustomBranches[e], CustomSources[scraped[g].source].name))
                    => scraped[g].adapter = CustomBranches[b].adapter
    /\ \A name \in DispatchNames :
          /\ Dispatch(name) \notin {"scrape_innovation_park_nd", "scrape_indiana_iot"}
          /\ Contains("Notre Dame", name) => Dispatch(name) = "scrape_notre_dame_idea"
    /\ \A b \in DOMAIN CustomBranches :
          CustomBranches[b].adapter = "scrape_innovation_park_nd" =>
              \E e \in 1..(b - 1) :
                  /\ CustomBranches[e].all = {}
                  /\ CustomBranches[e].any \cap CustomBranches[b].all # {}
                  /\ CustomBranches[e].adapter = "scrape_notre_dame_idea"
    /\ "scrape_indiana_iot" \notin BranchAdapters

\* the source named "Innovation Park at Notre Dame" went to the Notre Dame
\* IDEA adapter, whose record was lost, and the source named "Indiana IoT
\* Lab" to no adapter
C29_Witness ==
    /\ pc = "enrich"
    /\ \E g \in DOMAIN scraped :
          /\ scraped[g].source = 3
          /\ scraped[g].outcome = "item_raised"
          /\ scraped[g].adapter = "scrape_notre_dame_idea"
    /\ \E g \in DOMAIN scraped :
          scraped[g].source = 4 /\ scraped[g].adapter = "none"
    /\ events = <<>>

-----------------------------------------------------------------------------
\* Properties of the location written by enrichment

\* the adapter gave the record latitude and longitude
HasAdapterCoordinates(r) ==
    /\ "location" \in DOMAIN r
    /\ {"lat", "lng"} \subseteq DOMAIN r.location

\* the location by title: the centroid of the first city of the table
\* named in the title, else the default
TitleLocation(r) ==
    IF \E c \in DOMAIN indiana_cities : IsFirstMatch(c, r)
    THEN LET c == CHOOSE c \in DOMAIN indiana_cities : IsFirstMatch(c, r)
         IN [name |-> Title(indiana_cities[c].city),
             address |-> Title(indiana_cities[c].city) \o ", Indiana",
             lat |-> indiana_cities[c].lat, lng |-> indiana_cities[c].lng]
    ELSE [name |-> "Indianapolis", address |-> "Indianapolis, IN",
          lat |-> 397684, lng |-> -861581]

\* C26 as stated: latitude and longitude supplied by an adapter are never
\* those of the record in the catalog.
C26_AdapterCoordinatesNeverKept ==
    \A k \in DOMAIN catalog : \A j \in DOMAIN offered :
        (TitleDate(offered[j]) = TitleDate(catalog[k]) /\ HasAdapterCoordinates(offered[j]))
            => ~(/\ catalog[k].location.lat = offered[j].location.lat
                 /\ catalog[k].location.lng = offered[j].location.lng)

\* C26, amended: enrichment writes the location of every record anew,
\* without reading latitude and longitude the adapter supplied: after a
\* successful lookup the coordinates are those of the lookup, and when the
\* lookup fails or is not made the whole location (name and address too) is
\* the centroid of the city named in the title, else the Indianapolis
\* default, whatever venue and coordinates the adapter gave.
C26_LocationOverwritten ==
    \A k \in EnrichedPositions :
        IF \E g \in LookupsFor(k) : geoLog[g].result # None
        THEN \A g \in LookupsFor(k) :
                /\ events[k].location.lat = geoLog[g].result.lat
                /\ events[k].location.lng = geoLog[g].result.lng
                /\ DOMAIN events[k].location = {"name", "address", "lat", "lng"}
        ELSE events[k].location = TitleLocation(offered[k])

\* the lookup for a Madjax record failed: the catalog has it at the
\* Indianapolis default, not at the venue in Muncie the adapter gave
C26_Witness ==
    /\ pc = "done"
    /\ offered = <<RecMadjax>>
    /\ Len(geoLog) = 1
    /\ geoLog[1].result = None
    /\ Len(catalog) = 1
    /\ catalog[1].location = [name |-> "Indianapolis", address |-> "Indianapolis, IN",
                              lat |-> 397684, lng |-> -861581]

\* the position of a city in the table
CityIndex(city) == CHOOSE c \in DOMAIN indiana_cities : indiana_cities[c].city = city

\* C27: when the city table is scanned for a record, the record gets the
\* first entry, in table order, whose name occurs in the lower-cased title.
\* "lafayette" comes before "west lafayette", so no record gets the
\* "west lafayette" entry, and a title with "West Lafayette" (and no city
\* earlier in the table) gets the Lafayette centroid.
C27_FirstTableEntryWins ==
    /\ CityIndex("lafayette") < CityIndex("west lafayette")
    /\ \A k \in EnrichedPositions :
          (\A g \in LookupsFor(k) : geoLog[g].result = None) =>
              /\ \A c \in DOMAIN indiana_cities :
                    IsFirstMatch(c, offered[k]) =>
                        /\ events[k].location.lat = indiana_cities[c].lat
                        /\ events[k].location.lng = indiana_cities[c].lng
              /\ events[k].location.name # "West Lafayette"
              /\ ~(/\ events[k].location.lat = indiana_cities[CityIndex("west lafayette")].lat
                   /\ events[k].location.lng = indiana_cities[CityIndex("west lafayette")].lng)
              /\ (/\ Contains("west lafayette", Lower(offered[k].title))
                  /\ \A c \in 1..(CityIndex("lafayette") - 1) :
                        ~Contains(indiana_cities[c].city, Lower(offered[k].title)))
                    => events[k].location =
                          [name |-> "Lafayette", address |-> "Lafayette, Indiana",
                           lat |-> 404167, lng |-> -868753]

\* the record titled "West Lafayette Founders Meetup" is in the catalog at
\* the Lafayette centroid
C27_Witness ==
    /\ pc = "done"
    /\ offered = <<RecWestLafayette>>
    /\ catalog[1].location.name = "Lafayette"
    /\ catalog[1].location.lat = 404167

-----------------------------------------------------------------------------
\* Properties of the contents of the geocode cache

\* the call of geocode_address the step makes
LastLookup == geoLog'[Len(geoLog')]

\* the lower-cased address without whitespace at its ends
NormalForm(address) == Strip(Lower(address))

\* C28: the cache starts empty; an entry is added only by a lookup that the
\* service answered with a result, under the lower-cased, trimmed address
\* looked up, and holds that result; a lookup that fails adds nothing; an
\* entry is never changed or removed.
C28_CacheHoldsSuccessesOnly ==
    /\ [](\A key \in DOMAIN geocode_cache :
            /\ geocode_cache[key] # None
            /\ \E c \in DOMAIN extCalls :
                  extCalls[c].ok /\ NormalForm(extCalls[c].address) = key
            /\ \E g \in DOMAIN geoLog :
                  /\ ~geoLog[g].cached
                  /\ NormalForm(geoLog[g].address) = key
                  /\ geoLog[g].result = geocode_cache[key])
    /\ [][\A key \in DOMAIN geocode_cache :
            key \in DOMAIN geocode_cache' /\ geocode_cache'[key] = geocode_cache[key]]_vars
    /\ [][geocode_cache' # geocode_cache =>
            (/\ Len(geoLog') = Len(geoLog) + 1
             /\ ~LastLookup.cached
             /\ LastLookup.result # None
             /\ IsSuccess(LastLookup.address, lastResp')
             /\ DOMAIN geocode_cache'
                   = DOMAIN geocode_cache \cup {NormalForm(LastLookup.address)}
             /\ geocode_cache'[NormalForm(LastLookup.address)] = LastLookup.result)]_vars
    /\ [][(Len(geoLog') > Len(geoLog) /\ LastLookup.result = None) =>
            geocode_cache' = geocode_cache]_vars

\* a lookup failed and left the cache empty, the lookup of the same address
\* in capitals succeeded and is the only entry, under the lower-cased key
C28_Witness ==
    /\ Len(geoLog) = 2
    /\ geoLog[1].result = None
    /\ geoLog[2].result # None
    /\ geoLog[2].address = "1 MAIN ST, GARY"
    /\ DOMAIN geocode_cache = {"1 main st, gary"}
    /\ geocode_cache["1 main st, gary"] = geoLog[2].result

-----------------------------------------------------------------------------
\* Properties of the recurring 1 Million Cups records

\* the recurring records offered so far
RecurringOffered == SelectSeq(scraped, LAMBDA e : e.outcome = "item_added")

\* the number in a text of digits
RECURSIVE Number(_)
Number(t) ==
    IF t = "" THEN 0
    ELSE 10 * Number(SubSeq(t, 1, Len(t) - 1))
           + (CHOOSE n \in 0..9 : Char("0123456789", n + 1) = Char(t, Len(t)))

\* the day of the week of the date written YYYY-MM-DD..., Wednesday being 2:
\* counted from 2025-01-01, a Wednesday
IsWednesday(date) ==
    (DaysFromCivil(Number(SubSeq(date, 1, 4)), Number(SubSeq(date, 6, 7)),
                   Number(SubSeq(date, 9, 10)))
       - DaysFromCivil(2025, 1, 1)) % 7 = 0

\* the second Wednesday of the month of `today` at 08:00 is before `today`
SecondWednesdayPassed(today) ==
    \E d \in 8..14 :
        /\ IsWednesday(IsoFormat([today EXCEPT !.d = d]))
        /\ \/ d < today.d
           \/ d = today.d /\ 8 * 3600 < today.s

\* C30: when scrape_1mc has fetched its page and run its loop, it has
\* offered 14 records, one per month offset 0 to 13, to _add_event.  For
\* South Bend every date is a Wednesday, on day 8 to 14 of its month, at
\* 08:00; when the second Wednesday of the current month has passed the
\* records of offsets 0 and 1 carry the same date and 13 records are
\* admitted, else all 14 are.
C30_RecurringRecords ==
    /\ \A g \in DOMAIN RecurringOffered :
          /\ RecurringOffered[g].offset = g - 1
          /\ offered[g] = RecurringOffered[g].item
          /\ CityOf(RecurringSources[si]) = "South Bend" =>
                /\ IsWednesday(offered[g].date)
                /\ Number(SubSeq(offered[g].date, 9, 10)) \in 8..14
                /\ SubSeq(offered[g].date, 11, 19) = "T08:00:00"
                /\ Len(offered[g].date) = 19
    /\ Len(offered) = Len(RecurringOffered)
    /\ pc = "enrich" /\ scraped[1].outcome = "fetched" =>
          /\ Len(offered) = 14
          /\ CityOf(RecurringSources[si]) = "South Bend" =>
                IF SecondWednesdayPassed(scraped[1].today)
                THEN /\ offered[1].date = offered[2].date
                     /\ Len(events) = 13
                ELSE Len(events) = 14
          /\ \A j, k \in DOMAIN offered :
                (j < k /\ offered[j].date = offered[k].date) => (j = 1 /\ k = 2)

\* on 2025-01-20 the South Bend source gave 14 records of which 13 were
\* admitted: offsets 0 and 1 both fall on 2025-02-12
C30_Witness ==
    /\ pc = "enrich"
    /\ Len(offered) = 14
    /\ Len(events) = 13
    /\ offered[1].title = "1 Million Cups South Bend"
    /\ offered[1].date = "2025-02-12T08:00:00"
    /\ offered[2].date = "2025-02-12T08:00:00"
    /\ events[2].date = "2025-03-12T08:00:00"

=============================================================================
